---- MODULE Spec2Model ----
(***************************************************************************)
(* Model of the Logger/Formatter pipeline of the RTI Connext log parser    *)
(* (logparser/logger.py), of the handlers that feed it                     *)
(* (logparser/logs/events/events.py) and of the output device it ends in   *)
(* (logparser/devices/outputdevices.py).                                   *)
(*                                                                         *)
(* A "world" is one Logger together with the RunState dictionary it was    *)
(* built on and the devices behind it.  Every operation of the Logger is   *)
(* an operator from a world to the world after the call; the actions apply *)
(* it to the variable main and, with the same arguments, to the variable   *)
(* twin, a second Logger whose configuration may differ as env says.       *)
(***************************************************************************)
EXTENDS Integers, Sequences, FiniteSets, TLC

(***************************************************************************)
(* Bounds of the model.                                                    *)
(***************************************************************************)
MaxCalls == 3          \* entry-point calls in a run with plain configuration
MaxCfgCalls == 1       \* entry-point calls in a run with any configuration
MaxLevel == 1          \* levels and verbosities range over 0..MaxLevel

Levels == 0..MaxLevel
Texts == {"disk full", "peer 1"}
Patterns == {"1"}
Addrs == {"10.0.0.1"}
Entities == {"DW_1"}
Domains == {"0", "42", "100"}
Indexes == {"1"}
IsoTimes == {"00:00:01"}

(***************************************************************************)
(* Python values.  None is the empty tuple and a value that may be None is *)
(* a one-element tuple.  The values of a record (a dict) carry their type, *)
(* because _dict_regex_search asks for it with isinstance.                 *)
(***************************************************************************)
None == <<>>
Some(v) == <<v>>
StrVal(s) == <<"str", s>>
IntVal(n) == <<"int", n>>
isinstance_str(v) == v[1] = "str"

\* d[k] = v on a dict d
Put(d, k, v) == [x \in DOMAIN d \cup {k} |-> IF x = k THEN v ELSE d[x]]
\* d.get(k, default)
Get(d, k, default) == IF k \in DOMAIN d THEN d[k][2] ELSE default

VARIABLES main, twin, env, last, calls, io

vars == <<main, twin, env, last, calls, io>>

(***************************************************************************)
(* Logger.__init__: the colour tables.                                     *)
(***************************************************************************)
COLORS ==
    [RED |-> "\\033[91m", GREEN |-> "\\033[92m", YELLOW |-> "\\033[93m",
     BLUE |-> "\\033[94m", MAGENTA |-> "\\033[95m", BOLD |-> "\\033[1m",
     FAINT |-> "\\033[2m", ITALIC |-> "\\033[3m", UNDERLINE |-> "\\033[4m",
     END |-> "\\033[0m"]

\* the table without the tag of the highlight step
KIND_TO_COLOR_no_important ==
    [WARNING |-> "YELLOW|ITALIC", ERROR |-> "RED|BOLD"]

KIND_TO_COLOR ==
    [WARNING |-> "YELLOW|ITALIC", ERROR |-> "RED|BOLD", IMPORTANT |-> "BOLD"]

\* Logger.__init__: the fields of a new Logger
NewLogger ==
    [verbosity |-> 0, inline |-> TRUE, ignorePackets |-> FALSE,
     showColors |-> FALSE, highlight |-> None, onlyIf |-> None]

(***************************************************************************)
(* str.split(sep) for a one-character separator, and filter(None, list).   *)
(***************************************************************************)
RECURSIVE SplitFrom(_, _, _, _)
SplitFrom(s, sep, i, cur) ==
    IF i > Len(s) THEN <<cur>>
    ELSE IF SubSeq(s, i, i) = sep
         THEN <<cur>> \o SplitFrom(s, sep, i + 1, "")
         ELSE SplitFrom(s, sep, i + 1, cur \o SubSeq(s, i, i))

split(s, sep) == SplitFrom(s, sep, 1, "")

FilterNone(seq) == SelectSeq(seq, LAMBDA x : x # "")

(***************************************************************************)
(* regex.search(text) for a pattern that is a literal: the pattern occurs  *)
(* somewhere in the text.                                                  *)
(***************************************************************************)
search(regex, text) ==
    \E i \in 1..(Len(text) - Len(regex) + 1) :
        SubSeq(text, i, i + Len(regex) - 1) = regex

\* "%s" in place of "%3s": no padding
Format3s_unpadded(s) == s

\* "%3s" % s : s right-justified in a field of three characters
Format3s(s) ==
    IF Len(s) >= 3 THEN s
    ELSE IF Len(s) = 2 THEN " " \o s
    ELSE IF Len(s) = 1 THEN "  " \o s
    ELSE "   "

(***************************************************************************)
(* Logger._dict_regex_search: the regex is applied to every field of the   *)
(* record whose value is a str.  With regex = None the first str field     *)
(* makes regex.search raise AttributeError.                                *)
(***************************************************************************)
dict_regex_search(content, regex) ==
    \E field \in DOMAIN content :
        /\ isinstance_str(content[field])
        /\ search(regex[1], content[field][2])

dict_regex_search_raises(content, regex) ==
    /\ regex = None
    /\ \E field \in DOMAIN content : isinstance_str(content[field])

(***************************************************************************)
(* Logger._countset_add_element on the countset state[name].  adds and     *)
(* first are history: the number of add calls per text, and the index a    *)
(* text was given when it was inserted.                                    *)
(***************************************************************************)
\* the index is assigned again on every add
countset_add_element_reindexed(countset, el) ==
    Put(countset, el,
        <<Cardinality(DOMAIN countset),
          (IF el \in DOMAIN countset THEN countset[el][2] ELSE 0) + 1>>)

countset_add_element(countset, el) ==
    LET inserted == IF el \notin DOMAIN countset
                    THEN Put(countset, el, <<Cardinality(DOMAIN countset), 0>>)
                    ELSE countset
    IN  [inserted EXCEPT ![el][2] = @ + 1]

AddTo(w, name, el) ==
    [w EXCEPT
       !.state[name] = countset_add_element(@, el),
       !.adds[name] = Put(@, el, (IF el \in DOMAIN @ THEN @[el] ELSE 0) + 1),
       !.first[name] =
           IF el \in DOMAIN w.state[name] THEN @
           ELSE Put(@, el, Cardinality(DOMAIN w.state[name]))]

(***************************************************************************)
(* OutputConsoleDevice.write / OutputFileDevice.write: the line counter of *)
(* the application information goes up by one.                             *)
(***************************************************************************)
OutputDeviceWrite(w) ==
    [w EXCEPT !.appInfo.current_output_index = @ + 1]

(***************************************************************************)
(* FormatDevice.write_message(content, state): the format device renders   *)
(* the record and writes the line to the output device.  handed is the     *)
(* list of the records the format device was given during the call.        *)
(***************************************************************************)
write_message(w, content) ==
    OutputDeviceWrite([w EXCEPT !.handed = Append(@, content)])

(***************************************************************************)
(* Logger._log, lines 150-158: the colour prefix of a record's kind.       *)
(***************************************************************************)
RECURSIVE ColorOfSubkinds(_)
ColorOfSubkinds(subkinds) ==
    IF subkinds = <<>> THEN ""
    ELSE COLORS[Head(subkinds)] \o ColorOfSubkinds(Tail(subkinds))

\* color = ... in place of color += ... : only the last tag colours
ColorOfKinds_last_only(kinds) ==
    IF kinds = <<>> THEN ""
    ELSE ColorOfSubkinds(split(KIND_TO_COLOR[kinds[Len(kinds)]], "|"))

RECURSIVE ColorOfKinds(_)
ColorOfKinds(kinds) ==
    IF kinds = <<>> THEN ""
    ELSE ColorOfSubkinds(split(KIND_TO_COLOR[Head(kinds)], "|"))
             \o ColorOfKinds(Tail(kinds))

\* the elements of a list
Elements(seq) == {seq[i] : i \in DOMAIN seq}

\* self._KIND_TO_COLOR[kind] and self._COLORS[subkind] find their key for
\* every tag of the kind of the record; a missing key is a KeyError
ColorsKnown(content) ==
    \A kind \in Elements(FilterNone(split(Get(content, "kind", ""), "|"))) :
        /\ kind \in DOMAIN KIND_TO_COLOR
        /\ \A subkind \in Elements(split(KIND_TO_COLOR[kind], "|")) :
              subkind \in DOMAIN COLORS

ApplyColor(content) ==
    LET color == ColorOfKinds(FilterNone(split(Get(content, "kind", ""), "|")))
    IN  IF Len(color) > 0
        THEN Put(content, "description",
                 StrVal(color \o content["description"][2] \o COLORS["END"]))
        ELSE content

(***************************************************************************)
(* Logger._log(content, level).  logged is the list of the records _log    *)
(* was called with during the call, raised tells that the call ended with  *)
(* an exception.                                                           *)
(***************************************************************************)
Stamp(w, content) ==
    LET c1 == IF "clocks" \in DOMAIN w.state /\ w.state["clocks"][2] # None
              THEN Put(content, "timestamp",
                       StrVal(" " \o w.state["clocks"][2][1] \o " "))
              ELSE content
        c2 == Put(c1, "input_line", IntVal(w.state["input_line"]))
    IN  Put(c2, "output_line", IntVal(w.state["output_line"] + 1))

\* only the records of exactly the configured level pass
VerbosityGate_exact(verbosity, level) == verbosity # level

\* Logger._log, lines 128-129: the record is dropped
VerbosityGate(verbosity, level) == verbosity < level

log(w0, content, level) ==
    LET w == [w0 EXCEPT !.logged = Append(@, content)]
    IN
    IF VerbosityGate(w.logger.verbosity, level) THEN w
    ELSE
      LET c == Stamp(w, content) IN
      IF "onlyIf" \in DOMAIN w.state
            /\ ~dict_regex_search(c, w.state["onlyIf"])
      THEN w
      ELSE IF "highlight" \in DOMAIN w.state
                 /\ dict_regex_search_raises(c, w.logger.highlight)
      THEN [w EXCEPT !.raised = TRUE]
      ELSE
        LET h == IF "highlight" \in DOMAIN w.state
                       /\ dict_regex_search(c, w.logger.highlight)
                 THEN Put(c, "kind", StrVal(Get(c, "kind", "") \o "|IMPORTANT"))
                 ELSE c
            f == IF w.logger.showColors THEN ApplyColor(h) ELSE h
        IN  IF w.logger.showColors /\ ~ColorsKnown(h)
            THEN [w EXCEPT !.raised = TRUE]
            ELSE write_message(w, f)

(***************************************************************************)
(* The entry points of the Logger.                                         *)
(***************************************************************************)
recv(w, addr, entity, text, level) ==
    IF w.logger.ignorePackets THEN w
    ELSE log(w, [description |-> StrVal(text), remote |-> StrVal(addr),
                 entity |-> StrVal(entity), inout |-> StrVal("in")], level)

send(w, addr, entity, text, level) ==
    IF w.logger.ignorePackets THEN w
    ELSE log(w, [description |-> StrVal(text), remote |-> StrVal(addr),
                 entity |-> StrVal(entity), inout |-> StrVal("out")], level)

\* process without the ignorePackets test
process_unignored(w, addr, entity, text, level) ==
    log(w, [description |-> StrVal(text), remote |-> StrVal(addr),
            entity |-> StrVal(entity)], level)

process(w, addr, entity, text, level) ==
    IF w.logger.ignorePackets THEN w
    ELSE log(w, [description |-> StrVal(text), remote |-> StrVal(addr),
                 entity |-> StrVal(entity)], level)

\* cfg that keeps its facts in the countset of the warnings
cfg_in_warnings(w, text, level) ==
    IF w.logger.verbosity < level THEN w
    ELSE AddTo(w, "warnings", text)

\* cfg streaming the fact as a record, like event
cfg_streamed(w, text, level) ==
    IF w.logger.verbosity < level THEN w
    ELSE log(AddTo(w, "config", text), [description |-> StrVal(text)], level)

cfg(w, text, level) ==
    IF w.logger.verbosity < level THEN w
    ELSE AddTo(w, "config", text)

event(w, text, level) ==
    log(w, [description |-> StrVal(text)], level)

\* warning that does not look at the inline flag
warning_always_inline(w, text, level) ==
    IF w.logger.verbosity < level THEN w
    ELSE log(AddTo(w, "warnings", text),
             [description |-> StrVal("Warning: " \o text),
              kind |-> StrVal("WARNING")], level)

\* warning that counts only what reached the format device
warning_counted_if_written(w, text, level) ==
    IF w.logger.verbosity < level THEN w
    ELSE IF w.logger.inline
         THEN LET l == log(w, [description |-> StrVal("Warning: " \o text),
                               kind |-> StrVal("WARNING")], level)
              IN  IF Len(l.handed) > 0 THEN AddTo(l, "warnings", text) ELSE l
         ELSE AddTo(w, "warnings", text)

warning(w, text, level) ==
    IF w.logger.verbosity < level THEN w
    ELSE LET a == AddTo(w, "warnings", text) IN
         IF a.logger.inline
         THEN log(a, [description |-> StrVal("Warning: " \o text),
                      kind |-> StrVal("WARNING")], level)
         ELSE a

\* error that counts the text before it looks at the level
error_counted_before_gate(w, text, level) ==
    LET a == AddTo(w, "errors", text) IN
    IF a.logger.verbosity < level THEN a
    ELSE IF a.logger.inline
         THEN log(a, [description |-> StrVal("Error: " \o text),
                      kind |-> StrVal("ERROR")], level)
         ELSE a

error(w, text, level) ==
    IF w.logger.verbosity < level THEN w
    ELSE LET a == AddTo(w, "errors", text) IN
         IF a.logger.inline
         THEN log(a, [description |-> StrVal("Error: " \o text),
                      kind |-> StrVal("ERROR")], level)
         ELSE a

(***************************************************************************)
(* events.py: on_create_participant(match, state, logger).                 *)
(***************************************************************************)
\* the handler calls the entry point op of the Logger
Enter(w, op) == [w EXCEPT !.entered = Append(@, op)]

on_create_participant(w, match) ==
    event(Enter(w, "event"), "Created participant, domain: " \o Format3s(match[1])
                 \o " index: " \o match[2], 0)

(***************************************************************************)
(* Regular expressions of the rule table (Python re), in the syntax the    *)
(* table uses: literals, ".", the escapes \s \w \d and escaped literals,   *)
(* sets [...] of characters and escapes, the quantifiers + * {n} on one    *)
(* atom, the anchors ^ and $, and groups without nesting or alternatives.  *)
(***************************************************************************)
Char(s, i) == SubSeq(s, i, i)

CharsOf(s) == {Char(s, i) : i \in 1..Len(s)}

Digits == CharsOf("0123456789")
WordChars ==
    Digits \cup CharsOf("abcdefghijklmnopqrstuvwxyz")
           \cup CharsOf("ABCDEFGHIJKLMNOPQRSTUVWXYZ") \cup {"_"}
SpaceChars == {" ", "\t", "\n", "\r", "\f"}

\* the character after a backslash, matched against ch
EscapeMatches(e, ch) ==
    CASE e = "s" -> ch \in SpaceChars
      [] e = "w" -> ch \in WordChars
      [] e = "d" -> ch \in Digits
      [] OTHER -> ch = e

\* the index of the first c at or after k
RECURSIVE IndexOf(_, _, _)
IndexOf(re, c, k) ==
    IF Char(re, k) = c THEN k
    ELSE IF Char(re, k) = "\\" THEN IndexOf(re, c, k + 2)
    ELSE IndexOf(re, c, k + 1)

\* one of the items of the set re[k..close-1] matches ch
RECURSIVE SetMatches(_, _, _, _)
SetMatches(re, k, close, ch) ==
    IF k >= close THEN FALSE
    ELSE IF Char(re, k) = "\\"
         THEN EscapeMatches(Char(re, k + 1), ch)
                  \/ SetMatches(re, k + 2, close, ch)
         ELSE Char(re, k) = ch \/ SetMatches(re, k + 1, close, ch)

\* the index after the atom that starts at i
AtomEnd(re, i) ==
    IF Char(re, i) = "\\" THEN i + 2
    ELSE IF Char(re, i) = "[" THEN IndexOf(re, "]", i + 1) + 1
    ELSE i + 1

AtomMatches(re, i, ch) ==
    CASE Char(re, i) = "\\" -> EscapeMatches(Char(re, i + 1), ch)
      [] Char(re, i) = "[" ->
             SetMatches(re, i + 1, IndexOf(re, "]", i + 1), ch)
      [] Char(re, i) = "." -> ch # "\n"
      [] OTHER -> ch = Char(re, i)

\* the number written in re[k..close-1]
RECURSIVE ParseNat(_, _, _)
ParseNat(re, k, close) ==
    IF k >= close THEN 0
    ELSE ParseNat(re, k, close - 1) * 10
           + (CHOOSE d \in 0..9 : Char("0123456789", d + 1) = Char(re, close - 1))

\* the quantifier at k: least and most repetitions (-1: no limit), next index
Quantifier(re, k) ==
    CASE k > Len(re) -> [min |-> 1, max |-> 1, next |-> k]
      [] Char(re, k) = "+" -> [min |-> 1, max |-> -1, next |-> k + 1]
      [] Char(re, k) = "*" -> [min |-> 0, max |-> -1, next |-> k + 1]
      [] Char(re, k) = "{" ->
             LET close == IndexOf(re, "}", k + 1)
                 n == ParseNat(re, k + 1, close)
             IN  [min |-> n, max |-> n, next |-> close + 1]
      [] OTHER -> [min |-> 1, max |-> 1, next |-> k]

\* how many characters of text from j on match the atom at i, at most max
RECURSIVE Run(_, _, _, _, _)
Run(re, i, text, j, max) ==
    IF max = 0 \/ j > Len(text) \/ ~AtomMatches(re, i, Char(text, j)) THEN 0
    ELSE 1 + Run(re, i, text, j + 1, max - 1)

\* the least element of a set of integers
Least(S) == CHOOSE x \in S : \A y \in S : x <= y

\* the characters that are not literals, and the quantifiers
Special == CharsOf("\\[.^$()+*{")
QuantifierChars == {"+", "*", "{"}

\* re[k] is a literal character that carries no quantifier
IsLiteral(re, k) ==
    /\ Char(re, k) \notin Special
    /\ ~(k < Len(re) /\ Char(re, k + 1) \in QuantifierChars)

\* the index after the literal text that starts at i
LiteralEnd(re, i) ==
    Least({k \in i..(Len(re) + 1) : k > Len(re) \/ ~IsLiteral(re, k)})

(***************************************************************************)
(* re_match: the pattern from index i on matches text from index j on.     *)
(* The result is None, or Some(groups) with the groups captured, the       *)
(* longest repetition tried first as Python does.                          *)
(***************************************************************************)
RECURSIVE re_match(_, _, _, _, _, _)
RECURSIVE re_try(_, _, _, _, _, _, _, _)
re_try(re, next, min, text, j, k, groups, open) ==
    IF k < min THEN None
    ELSE LET r == re_match(re, next, text, j + k, groups, open)
         IN  IF r # None THEN r
             ELSE re_try(re, next, min, text, j, k - 1, groups, open)

re_match(re, i, text, j, groups, open) ==
    IF i > Len(re) THEN Some(groups)
    ELSE CASE Char(re, i) = "(" -> re_match(re, i + 1, text, j, groups, j)
           [] Char(re, i) = ")" ->
                  re_match(re, i + 1, text, j,
                           Append(groups, SubSeq(text, open, j - 1)), 0)
           [] Char(re, i) = "^" ->
                  IF j = 1 THEN re_match(re, i + 1, text, j, groups, open)
                  ELSE None
           [] Char(re, i) = "$" ->
                  IF j = Len(text) + 1 \/ (j = Len(text) /\ Char(text, j) = "\n")
                  THEN re_match(re, i + 1, text, j, groups, open)
                  ELSE None
           [] OTHER ->
                  IF IsLiteral(re, i)
                  THEN IF j > Len(text) \/ Char(text, j) # Char(re, i)
                       THEN None
                       ELSE LET n == LiteralEnd(re, i) - i IN
                            IF /\ j + n - 1 <= Len(text)
                               /\ SubSeq(text, j, j + n - 1)
                                      = SubSeq(re, i, i + n - 1)
                            THEN re_match(re, i + n, text, j + n, groups, open)
                            ELSE None
                  ELSE LET q == Quantifier(re, AtomEnd(re, i))
                       IN  re_try(re, q.next, q.min, text, j,
                                  Run(re, i, text, j, q.max), groups, open)

\* regex.search(text): the leftmost match, None when there is none
re_search(re, text) ==
    LET found == {j \in 1..(Len(text) + 1) :
                    re_match(re, 1, text, j, <<>>, 0) # None}
    IN  IF found = {} THEN None
        ELSE re_match(re, 1, text, Least(found), <<>>, 0)

(***************************************************************************)
(* logs/debug/logs.py: get_regex_list().  A rule is <<handler, regex>>;    *)
(* the blacklist is the group of the messages to ignore.                   *)
(***************************************************************************)
Blacklist ==
    <<
      <<"on_ignored_message",
        "^\\s*$">>,
      <<"on_ignored_message",
        "DDS_Registry_lock:Locking the storage service">>,
      <<"on_ignored_message",
        "DDS_Registry_unlock:Unlocking the storage service">>,
      <<"on_ignored_message",
        "RTIEventActiveDatabaseThread_loop:created \\w+">>,
      <<"on_ignored_message",
        "RTIEventActiveGeneratorThread_loop:created \\w+">>,
      <<"on_ignored_message",
        "COMMENDActiveFacadeReceiver_loop:created \\w+">>,
      <<"on_ignored_message",
        "COMMENDActiveFacade_threadStarted:thread count ref count "
          \o "\\d+">>,
      <<"on_ignored_message",
        "COMMENDActiveFacade_addReceiverThread:thread count ref cou"
          \o "nt \\d+">>,
      <<"on_ignored_message",
        "COMMENDActiveFacade_new:active object count ref count \\d+">>,
      <<"on_ignored_message",
        "RTIEventJobDispatcher_distributeTokens: \\d+ agents at pri"
          \o "ority [-\\d]+">>,
      <<"on_ignored_message",
        "RTIEventJobDispatcher_updateAgentPriorities:agent:0x\\w+ p"
          \o "riority set to [-\\d]+">>,
      <<"on_ignored_message",
        "NDDS_Transport_UDPv4_receive_rEA:\\w+ woke up">>,
      <<"on_ignored_message",
        "RTIEventJobDispatcher_scheduleJob:agent:\\w+ job:\\w+ sche"
          \o "duled at priority \\d+">>,
      <<"on_ignored_message",
        "RTIOsapiThread_sleep: nanosleep\\(\\d+.\\d+ s\\)">>,
      <<"on_ignored_message",
        "RTIEventActiveGeneratorThread_loop:\\w+ gathering events">>,
      <<"on_ignored_message",
        "RTIEventActiveGeneratorThread_loop:\\w+ firing events">>,
      <<"on_ignored_message",
        "RTIEventActiveGeneratorThread_loop:\\w+ rescheduling event"
          \o "s">>,
      <<"on_ignored_message",
        "RTIEventActiveGeneratorThread_loop:\\w+ sleeping \\{\\w+,"
          \o "\\w+\\}">>,
      <<"on_ignored_message",
        "RTIEventActiveDatabaseThread_loop:\\w+ collecting garbage">>,
      <<"on_ignored_message",
        "RTIEventActiveDatabaseThread_loop:\\w+ sleeping \\{\\w+,"
          \o "\\w+\\}">>,
      <<"on_ignored_message",
        "RTIEventJobDispatcher_updateAgentPriorities:agent:\\w+ pri"
          \o "ority set to \\d+">>,
      <<"on_ignored_message",
        "RTIEventJobDispatcher_distributeTokens: \\w+ agents at pri"
          \o "ority \\d+">>,
      <<"on_ignored_message",
        "RTIOsapiThread_sleep: Sleep\\(\\d+ ms\\)">>,
      <<"on_ignored_message",
        "RTISystemClock_init:epoch range \\{\\w+,\\w+\\}, frequency"
          \o " \\d+ Hz">>,
      <<"on_ignored_message",
        "DDS_StringSeq_ensure_length:memory allocation: original "
          \o "\\d+, new \\d+">>,
      <<"on_ignored_message",
        "DDS_PropertySeq_ensure_length:memory allocation: original "
          \o "\\d+, new \\d+">>,
      <<"on_ignored_message",
        "RTINetioReceiver_addEntryport:NetioReceiver_Entryport reus"
          \o "ed">>,
      <<"on_ignored_message",
        "RTINetioSender_addDestination:NetioSender_Destination reus"
          \o "ed">>,
      <<"on_ignored_message",
        "COMMENDActiveFacadeReceiver_loop:\\w+ disowning receive re"
          \o "source">>,
      <<"on_ignored_message",
        "COMMENDActiveFacadeReceiver_loop:\\w+ parsing message">>,
      <<"on_ignored_message",
        "RTINetioReceiver_receiveFast:\\w+ received \\d+ bytes">>,
      <<"on_ignored_message",
        "NDDS_Transport_Shmem_receive_rEA:\\w+ blocking on 0X\\w+">>,
      <<"on_ignored_message",
        "NDDS_Transport_Shmem_receive_rEA:\\w+ woke up">>,
      <<"on_ignored_message",
        "NDDS_Transport_UDPv4_receive_rEA:\\w+ blocking on 0X\\w+">>,
      <<"on_ignored_message",
        "RTIOsapi_getFirstValidInterface:found address for interfac"
          \o "e .+ \\(address family = \\d+\\)">>,
      <<"on_ignored_message",
        "RTIOsapi_getFirstValidInterface:skipped interface .+, \\(n"
          \o "ot valid address family \\([\\w/]+\\)\\)">>,
      <<"on_ignored_message",
        "RTIOsapi_getFirstValidInterface:skipped interface .+, \\(l"
          \o "oopback interface\\)">>,
      <<"on_ignored_message",
        "RTINetioReceiver_removeEntryport:NetioReceiver_Entryport r"
          \o "ef count \\d+">>,
      <<"on_ignored_message",
        "NDDS_Transport_UDPv4_SocketFactory_create_receive_socket:i"
          \o "nvalid port (\\d+)">>,
      <<"on_ignored_message",
        "NDDS_Transport_UDPv4_create_recvresource_rrEA:Created rece"
          \o "ive resource for port (\\d+)">>,
      <<"on_ignored_message",
        "NDDS_Transport_UDPv4_create_sendresource_srEA:Created send"
          \o " resource for 0X\\w+:\\d+">>,
      <<"on_ignored_message",
        "NDDS_Transport_UDPv4_query_interfaces:skipped (\\w+)">>,
      <<"on_ignored_message",
        "NDDS_Transport_UDPv4_create_recvresource_rrEA:!create sock"
          \o "et">>,
      <<"on_ignored_message",
        "DDS_DomainParticipantFactory_create_participant_disabledI:"
          \o "created participant: domain=\\d+, index=-1">>,
      <<"on_ignored_message",
        "DDS_DomainParticipantPresentation_reserve_participant_inde"
          \o "x_entryports:Domain \\d+:Trying to reserve participant ind"
          \o "ex=\\d+...">>,
      <<"on_ignored_message",
        "DISCPluginManager_onAfterLocalEndpointEnabled:at \\{\\w+,"
          \o "\\w+\\}">>,
      <<"on_ignored_message",
        "DISCSimpleEndpointDiscoveryPluginPDFListener_onAfterLocalW"
          \o "riterEnabled:at \\{\\w+,\\w+\\}">>,
      <<"on_ignored_message",
        "DISCSimpleEndpointDiscoveryPlugin_subscriptionReaderListen"
          \o "erOnDataAvailable:at \\{\\w+,\\w+\\}">>,
      <<"on_ignored_message",
        "DISCPluginManager_onAfterLocalParticipantEnabled:at \\{\\w"
          \o "+,\\w+\\}">>,
      <<"on_ignored_message",
        "DISCEndpointDiscoveryPlugin_assertRemoteEndpoint:at \\{\\w"
          \o "+,\\w+\\}">>,
      <<"on_ignored_message",
        "DISCPluginManager_activateEdpListenersForRemoteParticipant"
          \o ":at \\{\\w+,\\w+\\}">>,
      <<"on_ignored_message",
        "DISCParticipantDiscoveryPlugin_assertRemoteParticipant:at "
          \o "\\{\\w+,\\w+\\}">>,
      <<"on_ignored_message",
        "DISCSimpleParticipantDiscoveryPluginReaderListener_onDataA"
          \o "vailable:at \\{\\w+,\\w+\\}">>,
      <<"on_ignored_message",
        "DISCSimpleParticipantDiscoveryPlugin_remoteParticipantDisc"
          \o "overed:at \\{\\w+,\\w+\\}">>,
      <<"on_ignored_message",
        "DISCSimpleEndpointDiscoveryPlugin_publicationReaderListene"
          \o "rOnDataAvailable:at \\{\\w+,\\w+\\}">>,
      <<"on_ignored_message",
        "DISCSimpleEndpointDiscoveryPluginPDFListener_onAfterLocalR"
          \o "eaderEnabled:at \\{\\w+,\\w+\\}">>,
      <<"on_ignored_message",
        "DDS_Topic_createI:!create presentation topic">>,
      <<"on_ignored_message",
        "DDS_DomainParticipant_create_topic_disabledI:!create topic">>,
      <<"on_ignored_message",
        "DDSTopic_impl::createI:!create topic">>,
      <<"on_ignored_message",
        "PRESParticipant_destroyAllEntities:!delete flow controller">>,
      <<"on_ignored_message",
        "DDS_DomainParticipant_delete_contained_entities:!delete co"
          \o "ntained entitie">>,
      <<"on_ignored_message",
        "DISCSimpleParticipantDiscoveryPluginReaderListener_onDataA"
          \o "vailable:discovered modified participant: host=0x\\w+, app"
          \o "=0x\\w+, instance=0x\\w+">>,
      <<"on_ignored_message",
        "PRESPsService_onWriterResendEvent:writer resend event: \\("
          \o "([\\w,]+)\\)">>,
      <<"on_ignored_message",
        "WriterHistoryMemoryPlugin_addEntryToSessions:!initialize s"
          \o "ample">>,
      <<"on_ignored_message",
        "WriterHistoryMemoryPlugin_getEntry:!add virtual sample to "
          \o "sessions">>,
      <<"on_ignored_message",
        "WriterHistoryMemoryPlugin_addSample:!get entry">>,
      <<"on_ignored_message",
        "PRESWriterHistoryDriver_addWrite:!add_sample">>,
      <<"on_ignored_message",
        "PRESPsWriter_writeInternal:!collator addWrite">>,
      <<"on_ignored_message",
        "WriterHistoryMemoryPlugin_addSampleToWH:!add keyed entry">>,
      <<"on_ignored_message",
        "WriterHistoryMemoryPlugin_addSample:writer history full">>,
      <<"on_ignored_message",
        "PRESWriterHistoryDriver_addWrite:!instance history full">>,
      <<"on_ignored_message",
        "PRESWriterHistoryDriver_addWrite:!instance not found">>,
      <<"on_ignored_message",
        "PRESPsWriter_writeInternal:!collator write no instance">>,
      <<"on_ignored_message",
        "PRESCstReaderCollator_addCollatorEntryToPolled:!add keyed "
          \o "entry">>,
      <<"on_ignored_message",
        "PRESCstReaderCollator_commitRemoteWriterQueue:!add to poll"
          \o "ed">>,
      <<"on_ignored_message",
        "PRESCstReaderCollator_updateRemoteWriterQueueFirstRelevant"
          \o ":">>,
      <<"on_ignored_message",
        "PRESPsService_readerSampleListenerOnNewData:!goto WR pres "
          \o "psRemoteWriter">>,
      <<"on_ignored_message",
        "PRESPsReaderQueue_storeSampleToEntry:!store sample data">>,
      <<"on_ignored_message",
        "PRESPsReaderQueue_newData:!get entries">>,
      <<"on_ignored_message",
        "MIGGeneratorContext_addData:!space assert">>,
      <<"on_ignored_message",
        "This can occur if multicast is not enabled in the local pa"
          \o "rticipant.">>,
      <<"on_ignored_message",
        "See https://community.rti.com/kb/what-does-cant-reach-loca"
          \o "tor-error-message-mean for additional info.">>,
      <<"on_ignored_message",
        "can't reach:">>,
      <<"on_ignored_message",
        "transport: \\d+ \\([\\w\\d]+\\)">>,
      <<"on_ignored_message",
        "address: [\\d\\.]+">>,
      <<"on_ignored_message",
        "Recv Resource:">>,
      <<"on_ignored_message",
        "Send Resource:">>,
      <<"on_ignored_message",
        "RTINetioSender_addDestination:!create NetioSender_SendReso"
          \o "urce">>,
      <<"on_ignored_message",
        "RTINetioReceiver_addEntryport:!create NetioReceiver_Receiv"
          \o "eResource">>,
      <<"on_ignored_message",
        "send failed:">>,
      <<"on_ignored_message",
        "^\\s*locator:\\s*$">>,
      <<"on_ignored_message",
        "^\\s*transport: \\d+$">>,
      <<"on_ignored_message",
        "^\\s*address: [\\d:]+$">>,
      <<"on_ignored_message",
        "^[\\d:]+$">>,
      <<"on_ignored_message",
        "^\\s*port: \\d+$">>,
      <<"on_ignored_message",
        "^\\s*encapsulation:$">>,
      <<"on_ignored_message",
        "^\\s{3}transport_priority: \\d+$">>,
      <<"on_ignored_message",
        "^\\s{3}aliasList: \"\"$">>,
      <<"on_ignored_message",
        "DDS_DomainParticipantFactory_initializeI:Welcome to NDDS">>,
      <<"on_ignored_message",
        "DDS_DiscoveryQosPolicy_get_default:no environment variable"
          \o " or file NDDS_DISCOVERY_PEERS">>,
      <<"on_ignored_message",
        "Creating domain participant...">>,
      <<"on_ignored_message",
        "loading QoS ...">>
    >>

\* the catch-all rule appended before the blacklist instead of after it
get_regex_list_catch_all_first ==
    <<<<"on_unmatched_message", "(.*)">>>> \o Blacklist

\* the table without the catch-all rule
get_regex_list_no_catch_all == Blacklist

get_regex_list == Blacklist \o <<<<"on_unmatched_message", "(.*)">>>>

(***************************************************************************)
(* The lines of the input, without their end of line.                      *)
(***************************************************************************)
Lines ==
    {"DDS_Registry_lock:Locking the storage service",
     "XYZ unknown format 123",
     "",
     "[D0001] can't reach: peer",
     "RTIOsapiThread_sleep: Sleep(x ms)"}

(***************************************************************************)
(* Dispatcher: the rule table is evaluated in order and the first rule     *)
(* whose pattern is found in the line gives the handler and its captures;  *)
(* None when no rule matches.                                              *)
(***************************************************************************)
match_line(line) ==
    LET hits == {k \in 1..Len(get_regex_list) :
                   re_search(get_regex_list[k][2], line) # None}
    IN  IF hits = {} THEN None
        ELSE LET k == Least(hits) IN
             Some([rule |-> k, handler |-> get_regex_list[k][1],
                   captures |-> re_search(get_regex_list[k][2], line)[1]])

\* match_line on every line of the input
MatchLine == [line \in Lines |-> match_line(line)]

(***************************************************************************)
(* devices/inputdevices.py.  An input device is the stream it reads (the   *)
(* lines to come, each with its end of line, lineno of them consumed and   *)
(* told bytes consumed) and the fields of InputConsoleDevice and           *)
(* InputFileDevice.  Times are in tenths of a second.  progress is kept    *)
(* times file_size: the float self.progress is progress / file_size.       *)
(***************************************************************************)
StartTime == 1

RECURSIVE Bytes(_)
Bytes(content) ==
    IF content = <<>> THEN 0 ELSE Len(Head(content)) + Bytes(Tail(content))

\* InputDevice.__init__, InputConsoleDevice.__init__, InputFileDevice.__init__
NewInputDevice(kind, show_progress, content) ==
    [kind |-> kind, show_progress |-> show_progress,
     stream |-> content, lineno |-> 0, told |-> 0,
     file_size |-> Bytes(content),
     clock |-> StartTime, start_time |-> StartTime, current_time |-> -1,
     progress |-> -Bytes(content)]

\* stream.readline() that does not raise: the next line, "" at the end
readline(dev) ==
    IF dev.lineno < Len(dev.stream)
    THEN [text |-> dev.stream[dev.lineno + 1],
          dev |-> [dev EXCEPT !.lineno = @ + 1,
                              !.told = @ + Len(dev.stream[dev.lineno + 1])]]
    ELSE [text |-> "", dev |-> dev]

\* the outcome of a call that may print and may raise
Returns(dev, out) == [dev |-> dev, raised |-> FALSE, out |-> out]
Raises(dev, out) == [dev |-> dev, raised |-> TRUE, out |-> out]

\* InputConsoleDevice.print_time(threshold): time() is dt after the last one
print_time(dev, threshold, dt, stdout_ok) ==
    LET current_time == dev.clock + dt
        update_time == current_time - dev.current_time
        ticked == [dev EXCEPT !.clock = current_time]
    IN  IF dev.current_time > 0 /\ update_time < threshold
        THEN Returns(ticked, <<>>)
        ELSE LET shown == [ticked EXCEPT !.current_time = current_time] IN
             IF stdout_ok THEN Returns(shown, <<"Running for %.2f sec\r">>)
             ELSE Raises(shown, <<>>)

\* InputFileDevice.print_progress(threshold), threshold in 1/10000
print_progress(dev, threshold, tell_ok, stdout_ok) ==
    IF ~tell_ok THEN Raises(dev, <<>>)
    ELSE LET iteration == dev.told
             total == dev.file_size
             progress == 100 * iteration
         IN  IF total = 0 THEN Returns(dev, <<>>)
             ELSE IF /\ dev.progress # 0
                     /\ 10000 * (progress - dev.progress) < threshold * total
             THEN Returns(dev, <<>>)
             ELSE LET shown == [dev EXCEPT !.progress = progress] IN
                  IF stdout_ok THEN Returns(shown, <<"%s| %s%% Completed\r">>)
                  ELSE Raises(shown, <<>>)

\* the text of the exception a failing readline raises
IOErrorText == "I/O error"

(***************************************************************************)
(* InputConsoleDevice.read_line / InputFileDevice.read_line.  fails: the   *)
(* readline of the stream raises; tell_ok, stdout_ok: stream.tell() and    *)
(* the writes to the standard output succeed.  result is None at the end   *)
(* of the stream and Some(line) otherwise; raised tells that an exception  *)
(* left read_line; out is what was printed; read is what readline did.     *)
(***************************************************************************)
read_line(dev, fails, dt, tell_ok, stdout_ok) ==
    LET read == readline(dev)
        \* lines 88-95, 149-156: the try block and its handler
        tried ==
            IF fails
            THEN IF stdout_ok
                 THEN [dev |-> dev, line |-> Some(""), raised |-> FALSE,
                       out |-> <<"[InputError] " \o IOErrorText>>]
                 ELSE [dev |-> dev, line |-> Some(""), raised |-> TRUE,
                       out |-> <<>>]
            ELSE [dev |-> read.dev,
                  line |-> IF read.text = "" THEN None ELSE Some(read.text),
                  raised |-> FALSE, out |-> <<>>]
        did == IF fails THEN "raise"
               ELSE IF read.text = "" THEN "eof" ELSE "line"
    IN  IF tried.raised
        THEN [dev |-> tried.dev, result |-> None, raised |-> TRUE,
              out |-> tried.out, read |-> did]
        ELSE IF ~dev.show_progress
        THEN [dev |-> tried.dev, result |-> tried.line, raised |-> FALSE,
              out |-> tried.out, read |-> did]
        ELSE \* lines 97-98, 158-159: the progress display
             LET p == IF dev.kind = "console"
                      THEN print_time(tried.dev, 2, dt, stdout_ok)
                      ELSE print_progress(tried.dev, 100, tell_ok, stdout_ok)
             IN  [dev |-> p.dev,
                  result |-> IF p.raised THEN None ELSE tried.line,
                  raised |-> p.raised, out |-> tried.out \o p.out,
                  read |-> did]

(***************************************************************************)
(* devices/outputdevices.py.  lines is what reached the standard output or *)
(* the file, raised tells that the last write ended with an exception.     *)
(* The counter of the writes is in the application information, see        *)
(* OutputDeviceWrite.                                                      *)
(***************************************************************************)
\* OutputConsoleDevice.__init__ / OutputFileDevice.__init__
NewOutputDevice(kind, support_ansi) ==
    [kind |-> kind, support_ansi |-> support_ansi,
     lines |-> <<>>, raised |-> FALSE]

\* OutputConsoleDevice.write(text), lines 63-75; print_ok: print succeeds
OutputConsoleDevice_write(dev, text, print_ok) ==
    IF dev.support_ansi
    THEN IF print_ok
         THEN [dev EXCEPT !.lines = Append(@, "\\033[K" \o text),
                          !.raised = FALSE]
         ELSE [dev EXCEPT !.raised = TRUE]
    ELSE IF print_ok
         THEN [dev EXCEPT !.lines = Append(@, text), !.raised = FALSE]
         ELSE [dev EXCEPT !.raised = FALSE]

\* OutputFileDevice.write(text), line 101; write_ok: stream.write succeeds
OutputFileDevice_write(dev, text, write_ok) ==
    IF write_ok
    THEN [dev EXCEPT !.lines = Append(@, text \o "\n"), !.raised = FALSE]
    ELSE [dev EXCEPT !.raised = TRUE]

write(dev, text, ok) ==
    IF dev.kind = "console" THEN OutputConsoleDevice_write(dev, text, ok)
    ELSE OutputFileDevice_write(dev, text, ok)

(***************************************************************************)
(* The devices and the dispatch loop of a run.  pc is the state of the     *)
(* Dispatcher; crashed tells that an exception ended the loop; failures    *)
(* counts the reads that raised; result, out and read are those of the     *)
(* last read_line; dispatched and archived are the lines given to the      *)
(* rule table and the lines the catch-all handler archived; handler and    *)
(* captures are those of the last dispatch.                                *)
(***************************************************************************)
NewLoop ==
    [pc |-> "scanning", crashed |-> FALSE, failures |-> 0,
     result |-> None, out |-> <<>>, read |-> "",
     dispatched |-> <<>>, archived |-> <<>>,
     handler |-> "", captures |-> <<>>]

NewIO(input, output) == [input |-> input, output |-> output, loop |-> NewLoop]

\* no input to read, the console to write to
IdleIO ==
    NewIO(NewInputDevice("console", FALSE, <<>>),
          NewOutputDevice("console", FALSE))

(***************************************************************************)
(* Conversions of text the handlers of events.py use.                      *)
(***************************************************************************)
HexDigits == "0123456789abcdef"
HexDigitsUpper == "0123456789ABCDEF"

\* the value of one hexadecimal digit
HexValue(ch) ==
    CHOOSE d \in 0..15 :
        Char(HexDigits, d + 1) = ch \/ Char(HexDigitsUpper, d + 1) = ch

\* int(s, 16)
RECURSIVE int16(_)
int16(s) ==
    IF Len(s) = 0 THEN 0
    ELSE 16 * int16(SubSeq(s, 1, Len(s) - 1)) + HexValue(Char(s, Len(s)))

\* s.zfill(width)
RECURSIVE zfill(_, _)
zfill(s, width) == IF Len(s) >= width THEN s ELSE zfill("0" \o s, width)

LowerCase == "abcdefghijklmnopqrstuvwxyz"
UpperCase == "ABCDEFGHIJKLMNOPQRSTUVWXYZ"

\* ch of the alphabet from, as the letter of the alphabet to
Recase(ch, from, to) ==
    LET at == {i \in 1..Len(from) : Char(from, i) = ch}
    IN  IF at = {} THEN ch ELSE Char(to, Least(at))

RECURSIVE lower(_)
lower(s) ==
    IF Len(s) = 0 THEN ""
    ELSE Recase(Char(s, 1), UpperCase, LowerCase) \o lower(SubSeq(s, 2, Len(s)))

\* s.capitalize()
capitalize(s) ==
    IF Len(s) = 0 THEN ""
    ELSE Recase(Char(s, 1), LowerCase, UpperCase) \o lower(SubSeq(s, 2, Len(s)))

\* sep.join(parts)
RECURSIVE join(_, _)
join(sep, parts) ==
    IF parts = <<>> THEN ""
    ELSE IF Len(parts) = 1 THEN parts[1]
    ELSE parts[1] \o sep \o join(sep, Tail(parts))

\* " ".join(s.split()), for text whose only white space is the space
normalize_spaces(s) == join(" ", FilterNone(split(s, " ")))

\* s[:-1]
but_last(s) == IF Len(s) = 0 THEN "" ELSE SubSeq(s, 1, Len(s) - 1)

(***************************************************************************)
(* logparser.utils: the EntityRegistry.  The resolution operations         *)
(* memoize in the RunState and give the world after the call with the      *)
(* name; the decoding operations are functions of their arguments.         *)
(***************************************************************************)
Resolve(w, map, raw, label) ==
    IF raw \in DOMAIN w.state[map]
    THEN [w |-> w, name |-> w.state[map][raw]]
    ELSE LET name == label \o "_"
                       \o ToString(Cardinality(DOMAIN w.state[map]) + 1)
         IN  [w |-> [w EXCEPT !.state[map] = Put(@, raw, name)],
              name |-> name]

get_participant(w, addr) == Resolve(w, "participants", addr, "Participant")
get_topic_name(w, raw) == Resolve(w, "topics", raw, "Topic")
get_type_name(w, raw) == Resolve(w, "types", raw, "Type")
get_locator(w, raw) == Resolve(w, "locators", raw, "Locator")

\* the four bytes of eight hexadecimal digits as a dotted address
hex2ip(hex, reverse) ==
    join(".", [k \in 1..4 |->
                 LET b == IF reverse THEN 5 - k ELSE k
                 IN  ToString(int16(SubSeq(hex, 2 * b - 1, 2 * b)))])

\* host and application, and the instance if there is one
parse_guid(host, app, instance) ==
    hex2ip(host, FALSE) \o " " \o zfill(ToString(int16(app)), 5)
        \o (IF instance = None THEN ""
            ELSE " " \o zfill(ToString(int16(instance[1])), 5))

\* the two high bits of the entity kind, the last byte, are set
is_builtin_entity(hex) ==
    (int16(SubSeq(hex, Len(hex) - 1, Len(hex))) \div 64) % 4 = 3

get_oid(hex) ==
    IF is_builtin_entity(hex) THEN "BUILTIN_" \o hex ELSE "OID_" \o hex

(***************************************************************************)
(* events.py: the handlers, on_<event>(match, state, logger).  match is    *)
(* the tuple of the groups of the line, counted from 1 here.  python3      *)
(* tells the interpreter where a handler gives the run state as the level: *)
(* verbosity < state is True in Python 2 and a TypeError in Python 3.      *)
(***************************************************************************)
InterfaceFlags ==
    <<<<1, "UP">>, <<2, "BROADCAST">>, <<4, "LOOPBACK">>,
      <<8, "POINTOPOINT">>, <<16, "MULTICAST">>, <<32, "RUNNING">>>>

\* for bit in flags: if flag & bit != 0: flag_name += flags[bit] + "|"
RECURSIVE FlagNames(_, _)
FlagNames(flag, k) ==
    IF k > Len(InterfaceFlags) THEN ""
    ELSE (IF (flag \div InterfaceFlags[k][1]) % 2 = 1
          THEN InterfaceFlags[k][2] \o "|" ELSE "")
         \o FlagNames(flag, k + 1)

\* a level above every verbosity: what the run state is in Python 2
LevelAboveAll == MaxLevel + 1

on_query_udpv4_interfaces(w, match) ==
    LET addr == get_participant(w, hex2ip(match[1], TRUE))
        flag == int16(match[2])
    IN  event(Enter(addr.w, "event"),
              "Interface: " \o addr.name \o " is "
                  \o but_last(FlagNames(flag, 1)), 2)

on_find_valid_interface(w, match) ==
    cfg(Enter(w, "cfg"), "Valid interface: " \o match[1], 0)

\* on_get_valid_interface with one fact per flag
on_get_valid_interface_both(w, match) ==
    LET first == IF match[3] = "1"
                 THEN cfg(Enter(w, "cfg"), "Valid interface: " \o match[2], 0)
                 ELSE w
    IN  IF match[4] = "1"
        THEN cfg(Enter(first, "cfg"), "Multicast: " \o match[2], 0)
        ELSE first

on_get_valid_interface(w, match) ==
    IF match[3] = "1"
    THEN LET multicast == IF match[4] = "1" THEN "with" ELSE "no"
         IN  cfg(Enter(w, "cfg"),
                 "Valid interface: " \o match[2]
                     \o " (" \o multicast \o " multicast)", 0)
    ELSE w

on_skipped_interface(w, match) ==
    event(Enter(w, "event"), "Skipped interface: " \o match[1], 2)

on_delete_participant(w, match) ==
    event(Enter(w, "event"),
          "Deleted participant, domain: " \o Format3s(match[1])
              \o " index: " \o match[2], 0)

on_create_topic(w, match) ==
    LET topic == get_topic_name(w, match[1])
        typ == get_type_name(topic.w, match[2])
    IN  event(Enter(typ.w, "event"),
              "Created topic, name: '" \o topic.name
                  \o "', type: '" \o typ.name \o "'", 0)

on_create_cft(w, match) ==
    LET topic == get_topic_name(w, match[1])
    IN  event(Enter(topic.w, "event"),
              "Created ContentFilteredTopic, name: '" \o topic.name \o "'", 0)

on_delete_topic(w, match) ==
    LET topic == get_topic_name(w, match[1])
        typ == get_type_name(topic.w, match[2])
    IN  event(Enter(typ.w, "event"),
              "Deleted topic, name: '" \o topic.name
                  \o "', type: '" \o typ.name \o "'", 1)

on_create_writer(w, match) ==
    LET topic == get_topic_name(w, match[1])
    IN  event(Enter(topic.w, "event"),
              "Created writer for topic '" \o topic.name \o "'", 0)

on_create_reader(w, match) ==
    LET topic == get_topic_name(w, match[1])
    IN  event(Enter(topic.w, "event"),
              "Created reader for topic '" \o topic.name \o "'", 0)

on_delete_writer(w, match) ==
    LET topic == get_topic_name(w, match[1])
    IN  event(Enter(topic.w, "event"),
              "Deleted writer for topic '" \o topic.name \o "'", 0)

on_delete_reader(w, match) ==
    LET topic == get_topic_name(w, match[1])
    IN  event(Enter(topic.w, "event"),
              "Deleted reader for topic '" \o topic.name \o "'", 0)

on_duplicate_topic_name_error(w, match) ==
    LET topic == get_topic_name(w, match[1])
    IN  event(Enter(topic.w, "event"),
              "[LP-2] Topic name already in use by another topic: "
                  \o topic.name, 0)

on_delete_topic_before_cft(w, match) ==
    error(Enter(w, "error"),
          "[LP-7] Cannot delete topic before its " \o match[1]
              \o "ContentFilteredTopics", 0)

on_fail_delete_flowcontrollers(w, match) ==
    error(Enter(w, "error"),
          "[LP-15] Cannot delete " \o match[1] \o " "
              \o "FlowControllers from delete_contained_entities", 0)

on_inconsistent_transport_discovery_configuration(w, match) ==
    error(Enter(w, "error"),
          "Inconsistent transport/discovery configuration", 0)

on_discover_participant(w, match, python3) ==
    LET local_address == parse_guid(match[1], match[2], None)
        full_addr == normalize_spaces(
                         parse_guid(match[1], match[2], Some(match[3])))
        given == Enter(w, "process")
        dropped == process(given, local_address, "",
                           "Discovered new participant (" \o full_addr \o ")",
                           LevelAboveAll)
    IN  IF python3 /\ dropped.logged # given.logged
        THEN [dropped EXCEPT !.raised = TRUE]
        ELSE dropped

on_update_remote_participant(w, match) ==
    LET local_address == parse_guid(match[1], match[2], None)
        full_addr == normalize_spaces(
                         parse_guid(match[1], match[2], Some(match[3])))
        part_oid == get_oid(match[4])
    IN  process(Enter(w, "process"), local_address, "",
                "Discovered/Updated participant (" \o full_addr
                    \o " - " \o part_oid \o ")", 1)

\* the address of the application is set once; a second, different
\* address is a warning and the first one stays
set_local_address(w, guid) ==
    IF "local_address" \notin DOMAIN w.state
    THEN [w EXCEPT !.state = Put(@, "local_address", guid)]
    ELSE IF w.state["local_address"] = guid THEN w
    ELSE warning(Enter(w, "warning"),
                 "Local address already set, ignoring " \o guid, 0)

on_announce_local_participant(w, match) ==
    LET guid == hex2ip(match[1], FALSE) \o " "
                    \o zfill(ToString(int16(match[2])), 5)
    IN  set_local_address(w, guid)

on_discover_publication(w, match, python3) ==
    LET remote_addr == parse_guid(match[1], match[2], Some(match[3]))
        pub_oid == get_oid(match[4])
        given == Enter(w, "process")
        dropped == process(given, remote_addr, "",
                           "Discovered new publication " \o pub_oid,
                           LevelAboveAll)
    IN  IF python3 /\ dropped.logged # given.logged
        THEN [dropped EXCEPT !.raised = TRUE]
        ELSE dropped

on_update_endpoint(w, match) ==
    LET remote_addr == parse_guid(match[1], match[2], Some(match[3]))
        pub_oid == get_oid(match[4])
    IN  process(Enter(w, "process"), remote_addr, "",
                "Discovered/Updated publication " \o pub_oid, 1)

on_announce_local_publication(w, match) ==
    LET local_addr == parse_guid(match[1], match[2], Some(match[3]))
        pub_oid == get_oid(match[4])
    IN  process(Enter(w, "process"), local_addr, "",
                "Announcing new writer " \o pub_oid, 0)

on_announce_local_subscription(w, match) ==
    LET local_addr == parse_guid(match[1], match[2], Some(match[3]))
        sub_oid == get_oid(match[4])
    IN  process(Enter(w, "process"), local_addr, "",
                "Announcing new reader " \o sub_oid, 0)

on_participant_ignore_itself(w, match) ==
    process(Enter(w, "process"), "", "", "Participant is ignoring itself", 0)

on_lose_discovery_samples(w, match, python3) ==
    LET entity_type == match[1]
        entity_oid == get_oid(match[2])
        total == match[3]
        delta == match[4]
        given == Enter(w, "warning")
    IN  IF python3 THEN [given EXCEPT !.raised = TRUE]
        ELSE warning(given,
                     delta \o " discovery samples lost for " \o entity_type
                         \o " " \o entity_oid \o " (" \o total \o " in total)",
                     LevelAboveAll)

\* on_match_entity(entity2, kind) gives the handler match_entity
on_match_entity(w, entity2, kind, match) ==
    LET entity2_addr == parse_guid(match[1], match[2], Some(match[3]))
        entity2_oid == get_oid(match[4])
        entity1_oid == get_oid(match[5])
        verb == IF is_builtin_entity(match[5]) THEN 1 ELSE 0
        reliable == match[6]
    IN  process(Enter(w, "process"), entity2_addr, entity1_oid,
                "Discovered " \o kind \o " " \o reliable \o " " \o entity2
                    \o " " \o entity2_oid, verb)

on_different_type_names(w, match) ==
    LET topic == get_topic_name(w, match[1])
        type1 == get_type_name(topic.w, match[2])
        type2 == get_type_name(type1.w, match[3])
    IN  error(Enter(type2.w, "error"),
              "[LP-18] Cannot match remote entity in topic '" \o topic.name
                  \o "': " \o "Different type names found ('" \o type1.name
                  \o "', '" \o type2.name \o "')", 0)

on_typeobject_received(w, match) ==
    process(Enter(w, "process"), "", "", "TypeObject " \o match[1], 2)

on_register_unkeyed_instance(w, match) ==
    warning(Enter(w, "warning"),
            "[LP-4] Try to register instance with no key field.", 0)

on_get_unkeyed_key(w, match) ==
    error(Enter(w, "error"), "[LP-5] Try to get key from unkeyed type.", 0)

on_unregister_unkeyed_instance(w, match) ==
    warning(Enter(w, "warning"),
            "[LP-6] Try to unregister instance with no key field.", 0)

on_library_version(w, match) ==
    cfg(Enter(w, "cfg"), "Version of " \o match[1] \o " is " \o match[2], 0)

\* [get_locator(peer, state) for peer in peers]: the world after, the names
RECURSIVE get_locators(_, _)
get_locators(w, peers) ==
    IF peers = <<>> THEN [w |-> w, names |-> <<>>]
    ELSE LET one == get_locator(w, Head(peers))
             rest == get_locators(one.w, Tail(peers))
         IN  [w |-> rest.w, names |-> <<one.name>> \o rest.names]

on_participant_initial_peers(w, match) ==
    LET initial_peers == get_locators(w, split(match[1], ","))
        set == [initial_peers.w EXCEPT
                  !.state = Put(@, "initial_peers", initial_peers.names)]
    IN  cfg(Enter(set, "cfg"),
            "Initial peers: " \o join(", ", initial_peers.names), 0)

on_envvar_file_not_found(w, match) ==
    cfg(Enter(w, "cfg"),
        capitalize(match[1]) \o " " \o match[2] \o " not found", 0)

on_envvar_file_found(w, match) ==
    cfg(Enter(w, "cfg"),
        capitalize(match[1]) \o " " \o match[2] \o " found", 0)

(***************************************************************************)
(* The state after construction.  The RunState dictionary is built by the  *)
(* caller of Logger(state): the keys 'onlyIf', 'highlight' and 'clocks'    *)
(* are optional, the countsets start empty and the output counter at 0.    *)
(***************************************************************************)
CountsetNames == {"warnings", "errors", "config"}

BaseState ==
    [input_line |-> 1, output_line |-> 0,
     warnings |-> <<>>, errors |-> <<>>, config |-> <<>>]

WithKey(d, k, opt) == IF opt = None THEN d ELSE Put(d, k, opt[1])

\* the dictionary with the optional keys given as None or Some(value)
NewState(onlyIf, highlight, clocks) ==
    WithKey(WithKey(WithKey(BaseState, "onlyIf", onlyIf),
                    "highlight", highlight), "clocks", clocks)

\* ApplicationInformation.__init__
NewAppInfo == [current_log_index |-> 0, current_output_index |-> 0]

NewWorld(state) ==
    [logger |-> NewLogger, state |-> state, appInfo |-> NewAppInfo,
     handed |-> <<>>, logged |-> <<>>, raised |-> FALSE,
     entered |-> <<>>,
     adds |-> [n \in CountsetNames |-> <<>>],
     first |-> [n \in CountsetNames |-> <<>>]]

OptPatterns == {None} \cup {Some(Some(p)) : p \in Patterns}
OptClocks == {None} \cup {Some(<<None, None>>)}
                    \cup {Some(<<None, Some(t)>>) : t \in IsoTimes}

\* the twin's configuration: verbosity + dv, ignorePackets flipped when di
TwinOf(w, e) ==
    [w EXCEPT !.logger.verbosity = @ + e.dv,
              !.logger.ignorePackets = (@ # e.di)]

InitWith(states, envs) ==
    /\ env \in envs
    /\ \E st \in states :
          /\ main = NewWorld(st)
          /\ twin = TwinOf(NewWorld(st), env)
    /\ last = [op |-> "init", args |-> <<>>]
    /\ calls = 0
    /\ io = IdleIO

\* plain configuration: no optional key in the RunState, twin = main
Init ==
    InitWith({NewState(None, None, None)},
             {[limit |-> MaxCalls, dv |-> 0, di |-> FALSE, filters |-> FALSE, setup |-> FALSE]})

AllStates ==
    {NewState(o, h, c) : o \in OptPatterns, h \in OptPatterns, c \in OptClocks}

\* any configuration, twin = main
InitCfg ==
    InitWith(AllStates,
             {[limit |-> MaxCfgCalls, dv |-> 0, di |-> FALSE, filters |-> TRUE, setup |-> TRUE]})

\* any configuration; the twin is more verbose, or differs in ignorePackets
TwinEnvs ==
    {[limit |-> MaxCfgCalls, dv |-> d, di |-> FALSE, filters |-> TRUE, setup |-> TRUE] :
        d \in 1..MaxLevel}
    \cup {[limit |-> MaxCfgCalls, dv |-> 0, di |-> TRUE, filters |-> TRUE, setup |-> TRUE]}

TwinStates == {NewState(o, h, None) : o \in OptPatterns, h \in OptPatterns}

InitTwin == InitWith(TwinStates, TwinEnvs)

(***************************************************************************)
(* Actions: one per operation, applied to main and to twin.                *)
(***************************************************************************)
Begin(w) ==
    [w EXCEPT !.handed = <<>>, !.logged = <<>>, !.raised = FALSE,
              !.entered = <<>>]

Call(F(_), op, args) ==
    /\ main' = F(Begin(main))
    /\ twin' = IF twin = main THEN main' ELSE F(Begin(twin))
    /\ last' = [op |-> op, args |-> args]
    /\ calls' = calls + 1
    /\ UNCHANGED <<env, io>>

Recv ==
    \E addr \in Addrs, entity \in Entities, text \in Texts, level \in Levels :
        /\ calls < env.limit
        /\ Call(LAMBDA w : recv(w, addr, entity, text, level),
                "recv", <<text, level>>)

Send ==
    \E addr \in Addrs, entity \in Entities, text \in Texts, level \in Levels :
        /\ calls < env.limit
        /\ Call(LAMBDA w : send(w, addr, entity, text, level),
                "send", <<text, level>>)

Process ==
    \E addr \in Addrs, entity \in Entities, text \in Texts, level \in Levels :
        /\ calls < env.limit
        /\ Call(LAMBDA w : process(w, addr, entity, text, level),
                "process", <<text, level>>)

Cfg ==
    \E text \in Texts, level \in Levels :
        /\ calls < env.limit
        /\ Call(LAMBDA w : cfg(w, text, level), "cfg", <<text, level>>)

Event ==
    \E text \in Texts, level \in Levels :
        /\ calls < env.limit
        /\ Call(LAMBDA w : event(w, text, level), "event", <<text, level>>)

Warning ==
    \E text \in Texts, level \in Levels :
        /\ calls < env.limit
        /\ Call(LAMBDA w : warning(w, text, level), "warning", <<text, level>>)

Error ==
    \E text \in Texts, level \in Levels :
        /\ calls < env.limit
        /\ Call(LAMBDA w : error(w, text, level), "error", <<text, level>>)

OnCreateParticipant ==
    \E d \in Domains, i \in Indexes :
        /\ calls < env.limit
        /\ Call(LAMBDA w : on_create_participant(w, <<d, i>>),
                "on_create_participant", <<d, i>>)

\* env.setup: the configuration is given before the first call only
Set(F(_, _)) ==
    /\ env.setup => calls = 0
    /\ main' = F(Begin(main), [dv |-> 0, di |-> FALSE])
    /\ twin' = F(Begin(twin), env)
    /\ UNCHANGED <<env, calls, io>>

SetVerbosity ==
    \E value \in Levels :
        /\ Set(LAMBDA w, e : [w EXCEPT !.logger.verbosity = value + e.dv])
        /\ last' = [op |-> "setup", args |-> <<>>]

SetInline ==
    \E value \in BOOLEAN :
        /\ Set(LAMBDA w, e : [w EXCEPT !.logger.inline = value])
        /\ last' = [op |-> "setup", args |-> <<>>]

SetIgnorePackets ==
    \E value \in BOOLEAN :
        /\ Set(LAMBDA w, e : [w EXCEPT !.logger.ignorePackets = (value # e.di)])
        /\ last' = [op |-> "setup", args |-> <<>>]

SetColors ==
    \E value \in BOOLEAN :
        /\ env.filters
        /\ Set(LAMBDA w, e : [w EXCEPT !.logger.showColors = value])
        /\ last' = [op |-> "setup", args |-> <<>>]

SetHighlight ==
    \E value \in {None} \cup {Some(p) : p \in Patterns} :
        /\ env.filters
        /\ Set(LAMBDA w, e : [w EXCEPT !.logger.highlight = value])
        /\ last' = [op |-> "setup", args |-> <<>>]

SetOnlyIf ==
    \E value \in {None} \cup {Some(p) : p \in Patterns} :
        /\ env.filters
        /\ Set(LAMBDA w, e : [w EXCEPT !.logger.onlyIf = value])
        /\ last' = [op |-> "setup", args |-> <<>>]

EntryPoint ==
    \/ Recv
    \/ Send
    \/ Process
    \/ Cfg
    \/ Event
    \/ Warning
    \/ Error
    \/ OnCreateParticipant

Next ==
    \/ EntryPoint
    \/ SetVerbosity
    \/ SetInline
    \/ SetIgnorePackets

NextCfg ==
    \/ Next
    \/ SetColors
    \/ SetHighlight
    \/ SetOnlyIf

Spec == Init /\ [][Next]_vars

SpecCfg == InitCfg /\ [][NextCfg]_vars

NextTwin ==
    \/ Next
    \/ SetHighlight

SpecTwin == InitTwin /\ [][NextTwin]_vars

(***************************************************************************)
(* The colour step of _log (lines 150-158) run once more on a record that  *)
(* _log has already handed to the format device.                           *)
(***************************************************************************)
MaxCompose == 2        \* runs of the colour step on a record already composed

Composed == IF last.op = "compose" THEN last.args[1] ELSE 0

Compose ==
    /\ Composed < MaxCompose
    /\ Len(main.handed) = 1
    /\ main.logger.showColors
    /\ main' = [main EXCEPT !.handed[1] = ApplyColor(@)]
    /\ twin' = main'
    /\ last' = [op |-> "compose", args |-> <<Composed + 1>>]
    /\ UNCHANGED <<env, calls, io>>

\* a RunState with or without the key 'highlight', one entry-point call
InitColor ==
    InitWith({NewState(None, h, None) : h \in OptPatterns},
             {[limit |-> MaxCfgCalls, dv |-> 0, di |-> FALSE, filters |-> TRUE, setup |-> TRUE]})

NextColor ==
    \/ EntryPoint
    \/ SetColors
    \/ SetHighlight
    \/ Compose

SpecColor == InitColor /\ [][NextColor]_vars

(***************************************************************************)
(* The dispatch loop: read one line, dispatch it fully, repeat until the   *)
(* input device gives the end-of-stream marker.  The handlers of the rule  *)
(* table ignore the line (on_ignored_message) or archive it               *)
(* (on_unmatched_message).                                                 *)
(***************************************************************************)
MaxLines == 2          \* lines in the input stream
MaxFailures == 1       \* reads of the stream that raise during a run
MaxWrites == 3         \* writes to the output device

\* the line without its end of line
StripEol(line) ==
    IF Len(line) > 0 /\ Char(line, Len(line)) = "\n"
    THEN SubSeq(line, 1, Len(line) - 1)
    ELSE line

on_ignored_message(loop, captures) == loop

on_unmatched_message(loop, captures) ==
    [loop EXCEPT !.archived = Append(@, captures[1])]

dispatch(loop, line) ==
    LET m == MatchLine[line]
        given == [loop EXCEPT !.dispatched = Append(@, line)]
    IN  IF m = None THEN given
        ELSE LET handled ==
                     IF m[1].handler = "on_unmatched_message"
                     THEN on_unmatched_message(given, m[1].captures)
                     ELSE on_ignored_message(given, m[1].captures)
             IN  [handled EXCEPT !.handler = m[1].handler,
                                 !.captures = m[1].captures]

\* what the environment may do during a read: time() is read by
\* print_time only and stream.tell() by print_progress only
Ticks(dev) == IF dev.kind = "console" /\ dev.show_progress THEN {1, 2} ELSE {1}
Tells(dev) == IF dev.kind = "file" /\ dev.show_progress THEN BOOLEAN ELSE {TRUE}

ParseLine ==
    /\ io.loop.pc = "scanning"
    /\ \E fails \in BOOLEAN, dt \in Ticks(io.input),
          tell_ok \in Tells(io.input), stdout_ok \in BOOLEAN :
          /\ fails => io.loop.failures < MaxFailures
          /\ LET r == read_line(io.input, fails, dt, tell_ok, stdout_ok)
                 read == [io.loop EXCEPT
                            !.result = r.result, !.out = r.out,
                            !.read = r.read,
                            !.failures = @ + (IF fails THEN 1 ELSE 0),
                            !.handler = "", !.captures = <<>>]
             IN  IF r.raised
                 THEN /\ io' = [io EXCEPT !.input = r.dev,
                                   !.loop = [read EXCEPT !.pc = "terminated",
                                                         !.crashed = TRUE]]
                      /\ main' = main
                 ELSE IF r.result = None
                 THEN /\ io' = [io EXCEPT !.input = r.dev,
                                   !.loop = [read EXCEPT !.pc = "terminated"]]
                      /\ main' = main
                 ELSE /\ io' = [io EXCEPT !.input = r.dev,
                                   !.loop = dispatch(read, StripEol(r.result[1]))]
                      /\ main' = [main EXCEPT !.state["input_line"] = @ + 1]
    /\ twin' = main'
    /\ last' = [op |-> "parse_line", args |-> <<>>]
    /\ UNCHANGED <<env, calls>>

\* the streams of at most MaxLines lines
Contents ==
    UNION {[1..n -> {line \o "\n" : line \in Lines}] : n \in 0..MaxLines}

InitDevices(ios) ==
    /\ main = NewWorld(NewState(None, None, None))
    /\ twin = main
    /\ env = [limit |-> 0, dv |-> 0, di |-> FALSE, filters |-> FALSE, setup |-> FALSE]
    /\ last = [op |-> "init", args |-> <<>>]
    /\ calls = 0
    /\ io \in ios

\* a console or a file to read, with or without the progress display
InitLoop ==
    InitDevices({NewIO(NewInputDevice(kind, show_progress, content),
                       NewOutputDevice("console", FALSE)) :
                   kind \in {"console", "file"}, show_progress \in BOOLEAN,
                   content \in Contents})

NextLoop == ParseLine

SpecLoop == InitLoop /\ [][NextLoop]_vars

\* the loop is a sequential program: it keeps reading while it is scanning
SpecLoopFair == SpecLoop /\ WF_vars(ParseLine)

(***************************************************************************)
(* A write of the format device to the output device: the counter of the   *)
(* application information goes up and the text is printed or written,     *)
(* which succeeds or fails with an I/O error.                              *)
(***************************************************************************)
OutputWrite ==
    /\ main.appInfo.current_output_index < MaxWrites
    /\ \E text \in Texts, ok \in BOOLEAN :
          /\ main' = OutputDeviceWrite(main)
          /\ io' = [io EXCEPT !.output = write(@, text, ok)]
          /\ last' = [op |-> "write", args |-> <<text, ok>>]
    /\ twin' = main'
    /\ UNCHANGED <<env, calls>>

\* the console without and with ANSI support, and a file
InitOutput ==
    InitDevices({NewIO(NewInputDevice("console", FALSE, <<>>), output) :
                   output \in {NewOutputDevice("console", FALSE),
                               NewOutputDevice("console", TRUE),
                               NewOutputDevice("file", FALSE)}})

NextOutput == OutputWrite

SpecOutput == InitOutput /\ [][NextOutput]_vars

(***************************************************************************)
(* The handlers of events.py as actions: a dispatched line gives the       *)
(* groups of its rule to one handler.  The RunState has the maps of the    *)
(* EntityRegistry, and the local address is not set yet or was set by an   *)
(* earlier announcement.                                                   *)
(***************************************************************************)
MaxEventCalls == 1     \* calls of handlers and entry points in a run

HexHosts == {"0a000001"}
HexApps == {"0000a1b2", "0000a1b3"}
HexInstances == {"00000001"}
HexOids == {"80000003", "000100c2"}
TopicNames == {"Square"}
TypeNames == {"ShapeType"}

Guids == {<<h, a, i>> : h \in HexHosts, a \in {"0000a1b2"}, i \in HexInstances}
Endpoints == {g \o <<o>> : g \in Guids, o \in HexOids}

EventStates ==
    {WithKey(Put(Put(Put(Put(BaseState, "participants", <<>>),
                         "topics", <<>>), "types", <<>>), "locators", <<>>),
             "local_address", local) :
        local \in {None, Some("10.0.0.1 41394")}}

InitEvents ==
    InitWith(EventStates,
             {[limit |-> MaxEventCalls, dv |-> 0, di |-> FALSE,
               filters |-> FALSE, setup |-> TRUE, python3 |-> p] :
                 p \in BOOLEAN})

OnQueryUdpv4Interfaces ==
    \E match \in
            {<<"0100000a", flag>> : flag \in {"43", "0"}} :
        /\ calls < env.limit
        /\ Call(LAMBDA w : on_query_udpv4_interfaces(w, match),
                "on_query_udpv4_interfaces", match)

OnFindValidInterface ==
    \E match \in
            {<<"eth0">>} :
        /\ calls < env.limit
        /\ Call(LAMBDA w : on_find_valid_interface(w, match),
                "on_find_valid_interface", match)

OnGetValidInterface ==
    \E match \in
            {<<"2", "eth0", valid, multicast>> : valid \in {"0", "1"},
            multicast \in {"0", "1"}} :
        /\ calls < env.limit
        /\ Call(LAMBDA w : on_get_valid_interface(w, match),
                "on_get_valid_interface", match)

OnSkippedInterface ==
    \E match \in
            {<<"lo">>} :
        /\ calls < env.limit
        /\ Call(LAMBDA w : on_skipped_interface(w, match),
                "on_skipped_interface", match)

OnDeleteParticipant ==
    \E match \in
            {<<d, i>> : d \in Domains, i \in Indexes} :
        /\ calls < env.limit
        /\ Call(LAMBDA w : on_delete_participant(w, match),
                "on_delete_participant", match)

OnCreateTopic ==
    \E match \in
            {<<t, y>> : t \in TopicNames, y \in TypeNames} :
        /\ calls < env.limit
        /\ Call(LAMBDA w : on_create_topic(w, match),
                "on_create_topic", match)

OnCreateCft ==
    \E match \in
            {<<t>> : t \in TopicNames} :
        /\ calls < env.limit
        /\ Call(LAMBDA w : on_create_cft(w, match),
                "on_create_cft", match)

OnDeleteTopic ==
    \E match \in
            {<<t, y>> : t \in TopicNames, y \in TypeNames} :
        /\ calls < env.limit
        /\ Call(LAMBDA w : on_delete_topic(w, match),
                "on_delete_topic", match)

OnCreateWriter ==
    \E match \in
            {<<t>> : t \in TopicNames} :
        /\ calls < env.limit
        /\ Call(LAMBDA w : on_create_writer(w, match),
                "on_create_writer", match)

OnCreateReader ==
    \E match \in
            {<<t>> : t \in TopicNames} :
        /\ calls < env.limit
        /\ Call(LAMBDA w : on_create_reader(w, match),
                "on_create_reader", match)

OnDeleteWriter ==
    \E match \in
            {<<t>> : t \in TopicNames} :
        /\ calls < env.limit
        /\ Call(LAMBDA w : on_delete_writer(w, match),
                "on_delete_writer", match)

OnDeleteReader ==
    \E match \in
            {<<t>> : t \in TopicNames} :
        /\ calls < env.limit
        /\ Call(LAMBDA w : on_delete_reader(w, match),
                "on_delete_reader", match)

OnDuplicateTopicNameError ==
    \E match \in
            {<<t>> : t \in TopicNames} :
        /\ calls < env.limit
        /\ Call(LAMBDA w : on_duplicate_topic_name_error(w, match),
                "on_duplicate_topic_name_error", match)

OnDeleteTopicBeforeCft ==
    \E match \in
            {<<"2">>} :
        /\ calls < env.limit
        /\ Call(LAMBDA w : on_delete_topic_before_cft(w, match),
                "on_delete_topic_before_cft", match)

OnFailDeleteFlowcontrollers ==
    \E match \in
            {<<"2">>} :
        /\ calls < env.limit
        /\ Call(LAMBDA w : on_fail_delete_flowcontrollers(w, match),
                "on_fail_delete_flowcontrollers", match)

OnInconsistentTransportDiscoveryConfiguration ==
    \E match \in
            {<<>>} :
        /\ calls < env.limit
        /\ Call(LAMBDA w :
                on_inconsistent_transport_discovery_configuration(w, match),
                "on_inconsistent_transport_discovery_configuration", match)

OnDiscoverParticipant ==
    \E match \in
            Guids :
        /\ calls < env.limit
        /\ Call(LAMBDA w : on_discover_participant(w, match, env.python3),
                "on_discover_participant", match)

OnUpdateRemoteParticipant ==
    \E match \in
            Endpoints :
        /\ calls < env.limit
        /\ Call(LAMBDA w : on_update_remote_participant(w, match),
                "on_update_remote_participant", match)

OnAnnounceLocalParticipant ==
    \E match \in
            {<<h, a>> : h \in HexHosts, a \in HexApps} :
        /\ calls < env.limit
        /\ Call(LAMBDA w : on_announce_local_participant(w, match),
                "on_announce_local_participant", match)

OnDiscoverPublication ==
    \E match \in
            Endpoints :
        /\ calls < env.limit
        /\ Call(LAMBDA w : on_discover_publication(w, match, env.python3),
                "on_discover_publication", match)

OnUpdateEndpoint ==
    \E match \in
            Endpoints :
        /\ calls < env.limit
        /\ Call(LAMBDA w : on_update_endpoint(w, match),
                "on_update_endpoint", match)

OnAnnounceLocalPublication ==
    \E match \in
            Endpoints :
        /\ calls < env.limit
        /\ Call(LAMBDA w : on_announce_local_publication(w, match),
                "on_announce_local_publication", match)

OnAnnounceLocalSubscription ==
    \E match \in
            Endpoints :
        /\ calls < env.limit
        /\ Call(LAMBDA w : on_announce_local_subscription(w, match),
                "on_announce_local_subscription", match)

OnParticipantIgnoreItself ==
    \E match \in
            {<<>>} :
        /\ calls < env.limit
        /\ Call(LAMBDA w : on_participant_ignore_itself(w, match),
                "on_participant_ignore_itself", match)

OnLoseDiscoverySamples ==
    \E match \in
            {<<"writer", o, "5", "2">> : o \in HexOids} :
        /\ calls < env.limit
        /\ Call(LAMBDA w : on_lose_discovery_samples(w, match, env.python3),
                "on_lose_discovery_samples", match)

OnMatchEntity ==
    \E entity \in {<<"reader", "remote">>, <<"writer", "local">>} :
      \E match \in
              {e \o <<o, r>> : e \in Endpoints, o \in HexOids,
              r \in {"Reliable"}} :
          /\ calls < env.limit
          /\ Call(LAMBDA w : on_match_entity(w, entity[1], entity[2], match),
                  "on_match_entity", match)

OnDifferentTypeNames ==
    \E match \in
            {<<t, y, "ShapeTypeExtended">> : t \in TopicNames,
            y \in TypeNames} :
        /\ calls < env.limit
        /\ Call(LAMBDA w : on_different_type_names(w, match),
                "on_different_type_names", match)

OnTypeobjectReceived ==
    \E match \in
            {<<"received">>} :
        /\ calls < env.limit
        /\ Call(LAMBDA w : on_typeobject_received(w, match),
                "on_typeobject_received", match)

OnRegisterUnkeyedInstance ==
    \E match \in
            {<<>>} :
        /\ calls < env.limit
        /\ Call(LAMBDA w : on_register_unkeyed_instance(w, match),
                "on_register_unkeyed_instance", match)

OnGetUnkeyedKey ==
    \E match \in
            {<<>>} :
        /\ calls < env.limit
        /\ Call(LAMBDA w : on_get_unkeyed_key(w, match),
                "on_get_unkeyed_key", match)

OnUnregisterUnkeyedInstance ==
    \E match \in
            {<<>>} :
        /\ calls < env.limit
        /\ Call(LAMBDA w : on_unregister_unkeyed_instance(w, match),
                "on_unregister_unkeyed_instance", match)

OnLibraryVersion ==
    \E match \in
            {<<"nddsc", "5.2.0">>} :
        /\ calls < env.limit
        /\ Call(LAMBDA w : on_library_version(w, match),
                "on_library_version", match)

OnParticipantInitialPeers ==
    \E match \in
            {<<"udpv4://239.255.0.1,shmem://">>, <<"shmem://,shmem://">>} :
        /\ calls < env.limit
        /\ Call(LAMBDA w : on_participant_initial_peers(w, match),
                "on_participant_initial_peers", match)

OnEnvvarFileNotFound ==
    \E match \in
            {<<"environment variable", "NDDS_QOS_PROFILES">>, <<"XML file",
            "USER_QOS_PROFILES.xml">>} :
        /\ calls < env.limit
        /\ Call(LAMBDA w : on_envvar_file_not_found(w, match),
                "on_envvar_file_not_found", match)

OnEnvvarFileFound ==
    \E match \in
            {<<"environment variable", "NDDS_QOS_PROFILES">>, <<"XML file",
            "USER_QOS_PROFILES.xml">>} :
        /\ calls < env.limit
        /\ Call(LAMBDA w : on_envvar_file_found(w, match),
                "on_envvar_file_found", match)

Handler ==
    \/ OnQueryUdpv4Interfaces
    \/ OnFindValidInterface
    \/ OnGetValidInterface
    \/ OnSkippedInterface
    \/ OnDeleteParticipant
    \/ OnCreateTopic
    \/ OnCreateCft
    \/ OnDeleteTopic
    \/ OnCreateWriter
    \/ OnCreateReader
    \/ OnDeleteWriter
    \/ OnDeleteReader
    \/ OnDuplicateTopicNameError
    \/ OnDeleteTopicBeforeCft
    \/ OnFailDeleteFlowcontrollers
    \/ OnInconsistentTransportDiscoveryConfiguration
    \/ OnDiscoverParticipant
    \/ OnUpdateRemoteParticipant
    \/ OnAnnounceLocalParticipant
    \/ OnDiscoverPublication
    \/ OnUpdateEndpoint
    \/ OnAnnounceLocalPublication
    \/ OnAnnounceLocalSubscription
    \/ OnParticipantIgnoreItself
    \/ OnLoseDiscoverySamples
    \/ OnMatchEntity
    \/ OnDifferentTypeNames
    \/ OnTypeobjectReceived
    \/ OnRegisterUnkeyedInstance
    \/ OnGetUnkeyedKey
    \/ OnUnregisterUnkeyedInstance
    \/ OnLibraryVersion
    \/ OnParticipantInitialPeers
    \/ OnEnvvarFileNotFound
    \/ OnEnvvarFileFound

NextEvents ==
    \/ Handler
    \/ EntryPoint
    \/ SetVerbosity
    \/ SetInline
    \/ SetIgnorePackets

SpecEvents == InitEvents /\ [][NextEvents]_vars

(***************************************************************************)
(* What the properties below speak of.                                     *)
(***************************************************************************)
PacketOps == {"recv", "send", "process"}
CountOps == {"warning", "error", "cfg"}
LoggerOps == PacketOps \cup CountOps \cup {"event"}

\* the arguments of the last call of a Logger entry point
LastText == last.args[1]
LastLevel == last.args[2]

\* the occurrence count of el in a countset, 0 when it is not there
Occ(countset, el) == IF el \in DOMAIN countset THEN countset[el][2] ELSE 0

\* countset after is countset before with one more occurrence of el
OneMore(before, after, el) ==
    /\ DOMAIN after = DOMAIN before \cup {el}
    /\ \A x \in DOMAIN after :
          Occ(after, x) = Occ(before, x) + (IF x = el THEN 1 ELSE 0)

CountsetOf(op) ==
    IF op = "warning" THEN "warnings"
    ELSE IF op = "error" THEN "errors" ELSE "config"

\* no optional key in the RunState and no pattern given to the Logger
NoFilters(w) ==
    /\ {"onlyIf", "highlight"} \cap DOMAIN w.state = {}
    /\ w.logger.highlight = None
    /\ w.logger.onlyIf = None

\* the string-valued fields of a record, as the specification lists them
StringFields ==
    {"description", "remote", "entity", "inout", "kind", "timestamp"}

\* the pattern occurs in one of the string-valued fields of the record
MatchesSomeField(pattern, record) ==
    \E f \in StringFields \cap DOMAIN record : search(pattern, record[f][2])

\* the record _log was called with, as stamped by _log
Stamped(w) == Stamp(w, w.logged[1])

\* a record apart from its output position
Sans(record) == [f \in DOMAIN record \ {"output_line"} |-> record[f]]
SansAll(records) == [i \in 1..Len(records) |-> Sans(records[i])]

(***************************************************************************)
(* C1 (as stated): dispatching a "created participant" line with captures  *)
(* "0" and "1" at verbosity 0 without filters hands exactly one record to  *)
(* the format device, with description                                     *)
(* "Created participant, domain: 0 index: 1".                              *)
(***************************************************************************)
C1_Dispatched ==
    /\ last.op = "on_create_participant"
    /\ last.args = <<"0", "1">>
    /\ main.logger.verbosity = 0
    /\ NoFilters(main)

C1_AsStated ==
    C1_Dispatched =>
        /\ Len(main.handed) = 1
        /\ main.handed[1]["description"] =
               StrVal("Created participant, domain: 0 index: 1")

(***************************************************************************)
(* C1 (amended): the one record handed to the format device is a plain     *)
(* event record whose description is                                       *)
(* "Created participant, domain:   0 index: 1": the domain is written      *)
(* with "%3s", right-justified in three characters.                        *)
(***************************************************************************)
C1_CreatedParticipant ==
    C1_Dispatched =>
        /\ Len(main.handed) = 1
        /\ main.handed[1]["description"] =
               StrVal("Created participant, domain:   0 index: 1")
        /\ DOMAIN main.handed[1] = {"description", "input_line", "output_line"}

C1_Witness ==
    /\ C1_Dispatched
    /\ Len(main.handed) = 1

(***************************************************************************)
(* C2 (as stated): for event, recv, send, process (ignore-packets off) and *)
(* inline warning and error, with no only-if pattern configured, the       *)
(* record of level L is handed to the format device if and only if the     *)
(* verbosity is >= L.                                                      *)
(***************************************************************************)
Streams(w) ==
    \/ last.op = "event"
    \/ last.op \in PacketOps /\ ~w.logger.ignorePackets
    \/ last.op \in {"warning", "error"} /\ w.logger.inline

C2_AsStated ==
    (/\ Streams(main)
     /\ "onlyIf" \notin DOMAIN main.state
     /\ main.logger.onlyIf = None)
        => (Len(main.handed) = 1 <=> main.logger.verbosity >= LastLevel)

(***************************************************************************)
(* C3: verbosity monotonicity.  main and twin get the same calls and the   *)
(* same configuration, but the twin's verbosity is higher by env.dv: every *)
(* record a call hands to the format device of main, the same call hands   *)
(* to the format device of twin (the same record, whatever its output      *)
(* position).                                                              *)
(***************************************************************************)
C3_Monotone ==
    (~env.di /\ twin.logger.verbosity >= main.logger.verbosity)
        => \A i \in 1..Len(main.handed) :
              /\ i <= Len(twin.handed)
              /\ Sans(twin.handed[i]) = Sans(main.handed[i])

C3_Witness ==
    /\ ~env.di
    /\ twin.logger.verbosity > main.logger.verbosity
    /\ last.op \in LoggerOps
    /\ LastLevel = main.logger.verbosity
    /\ Len(main.handed) = 1
    /\ SansAll(twin.handed) = SansAll(main.handed)

(***************************************************************************)
(* C4: countset invariant.  In each countset every text that was added is  *)
(* present, with the index it was given at its insertion and with a count  *)
(* equal to the number of add calls made with it; the texts present are    *)
(* the texts added, and the indices are the sequence 0, 1, 2, ...          *)
(***************************************************************************)
C4_Countset ==
    \A n \in CountsetNames :
        LET countset == main.state[n] IN
        /\ DOMAIN countset = DOMAIN main.adds[n]
        /\ \A el \in DOMAIN main.adds[n] :
              /\ main.adds[n][el] >= 1
              /\ countset[el][1] = main.first[n][el]
              /\ countset[el][2] = main.adds[n][el]
        /\ {countset[el][1] : el \in DOMAIN countset}
               = 0..(Cardinality(DOMAIN countset) - 1)

C4_Witness ==
    \E n \in CountsetNames : \E a, b \in Texts :
        /\ a # b
        /\ a \in DOMAIN main.state[n] /\ b \in DOMAIN main.state[n]
        /\ main.state[n][a] = <<0, 2>>
        /\ main.state[n][b] = <<1, 1>>

(***************************************************************************)
(* C5: with the inline flag disabled a call of warning or error hands no   *)
(* record to the format device and does not enter _log; when its level is  *)
(* within the verbosity it adds one occurrence of the text to its          *)
(* countset, and otherwise it changes nothing.                             *)
(***************************************************************************)
C5_NotInline ==
    [][(last'.op \in {"warning", "error"} /\ ~main.logger.inline) =>
          LET n == CountsetOf(last'.op) IN
          /\ main'.handed = <<>>
          /\ main'.logged = <<>>
          /\ main'.appInfo = main.appInfo
          /\ \A m \in CountsetNames \ {n} : main'.state[m] = main.state[m]
          /\ IF main.logger.verbosity >= last'.args[2]
             THEN OneMore(main.state[n], main'.state[n], last'.args[1])
             ELSE main'.state[n] = main.state[n]]_vars

\* warning("disk full") twice: one entry with count 2, nothing written
C5_Witness ==
    /\ ~main.logger.inline
    /\ last.op = "warning"
    /\ DOMAIN main.state["warnings"] = {"disk full"}
    /\ main.state["warnings"]["disk full"] = <<0, 2>>
    /\ main.appInfo.current_output_index = 0
    /\ calls = 2

(***************************************************************************)
(* C6: with the inline flag enabled and verbosity >= level, warning (resp. *)
(* error) adds one occurrence of the text to warnings (resp. errors)       *)
(* whatever the filters do with the record, and calls _log exactly once,   *)
(* with the record of kind WARNING (resp. ERROR).                          *)
(***************************************************************************)
C6_Inline ==
    [][(/\ last'.op \in {"warning", "error"}
        /\ main.logger.inline
        /\ main.logger.verbosity >= last'.args[2]) =>
          LET n == CountsetOf(last'.op) IN
          /\ OneMore(main.state[n], main'.state[n], last'.args[1])
          /\ \A m \in CountsetNames \ {n} : main'.state[m] = main.state[m]
          /\ main'.logged =
               << IF last'.op = "warning"
                  THEN [description |-> StrVal("Warning: " \o last'.args[1]),
                        kind |-> StrVal("WARNING")]
                  ELSE [description |-> StrVal("Error: " \o last'.args[1]),
                        kind |-> StrVal("ERROR")] >>
          /\ Len(main'.handed) <= 1]_vars

\* a warning counted although the only-if filter dropped its record
C6_Witness ==
    /\ last.op = "warning"
    /\ main.logger.inline
    /\ main.logger.verbosity >= LastLevel
    /\ "onlyIf" \in DOMAIN main.state
    /\ Len(main.logged) = 1
    /\ main.handed = <<>>
    /\ ~main.raised
    /\ Occ(main.state["warnings"], LastText) = 1

(***************************************************************************)
(* C7: cfg hands no record to the format device and does not enter _log,   *)
(* so that no filter, highlight or colour setting is consulted; it leaves  *)
(* warnings, errors and the line counters alone, and its only effect, when *)
(* verbosity >= level, is one more occurrence of the text in config.       *)
(***************************************************************************)
C7_Cfg ==
    [][last'.op = "cfg" =>
          /\ main'.handed = <<>>
          /\ main'.logged = <<>>
          /\ ~main'.raised
          /\ main'.appInfo = main.appInfo
          /\ main'.logger = main.logger
          /\ \A k \in DOMAIN main.state \ {"config"} :
                main'.state[k] = main.state[k]
          /\ DOMAIN main'.state = DOMAIN main.state
          /\ IF main.logger.verbosity >= last'.args[2]
             THEN OneMore(main.state["config"], main'.state["config"],
                          last'.args[1])
             ELSE main'.state["config"] = main.state["config"]]_vars

\* a configuration fact counted where every streamed record would be lost
C7_Witness ==
    /\ last.op = "cfg"
    /\ "onlyIf" \in DOMAIN main.state
    /\ "highlight" \in DOMAIN main.state
    /\ main.logger.highlight = None
    /\ main.logger.showColors
    /\ Occ(main.state["config"], LastText) = 1
    /\ main.handed = <<>>

C8_WitnessEvent ==
    /\ env.di
    /\ main.logger.ignorePackets
    /\ last.op = "event"
    /\ Len(main.handed) = 1
    /\ SansAll(twin.handed) = SansAll(main.handed)

(***************************************************************************)
(* C9 (as stated): when an only-if pattern is configured, a record that    *)
(* passed the verbosity gate is handed to the format device if and only if *)
(* the pattern matches one of its string-valued fields.                    *)
(***************************************************************************)
\* the only-if pattern: the one given to setOnlyIf, else the one of RunState
OnlyIfPattern(w) ==
    IF w.logger.onlyIf # None THEN w.logger.onlyIf
    ELSE IF "onlyIf" \in DOMAIN w.state THEN w.state["onlyIf"]
    ELSE None

PassedGate(w) ==
    /\ last.op \in LoggerOps
    /\ Len(w.logged) = 1
    /\ w.logger.verbosity >= LastLevel

C9_AsStated ==
    (PassedGate(main) /\ OnlyIfPattern(main) # None) =>
        (Len(main.handed) = 1
            <=> MatchesSomeField(OnlyIfPattern(main)[1], Stamped(main)))

(***************************************************************************)
(* C10 (as stated): when a highlight pattern is configured, a record gains *)
(* the tag IMPORTANT, appended to its kind, if and only if the pattern     *)
(* matches one of its string-valued fields.                                *)
(***************************************************************************)
\* the highlight pattern: the one given to setHighlight, else RunState's
HighlightPattern(w) ==
    IF w.logger.highlight # None THEN w.logger.highlight
    ELSE IF "highlight" \in DOMAIN w.state THEN w.state["highlight"]
    ELSE None

C10_AsStated ==
    (/\ last.op \in LoggerOps
     /\ Len(main.handed) = 1
     /\ HighlightPattern(main) # None) =>
        LET before == Get(main.logged[1], "kind", "")
            after == Get(main.handed[1], "kind", "")
        IN  IF MatchesSomeField(HighlightPattern(main)[1], Stamped(main))
            THEN after = before \o "|IMPORTANT"
            ELSE after = before

(***************************************************************************)
(* C11: colour composition.  With colours enabled and a kind that holds a  *)
(* tag, the description handed to the format device is the escape codes of *)
(* the tags of kind, in the order of the tags (WARNING: yellow, italic;    *)
(* ERROR: red, bold; IMPORTANT: bold), then the description _log was given,*)
(* then one reset code.  With colours disabled, or with no tag, it is the  *)
(* description _log was given.                                             *)
(***************************************************************************)
\* the tags of the kinds a record of the Logger can carry
TagsOf(kind) ==
    CASE kind = "" -> <<>>
      [] kind = "WARNING" -> <<"WARNING">>
      [] kind = "ERROR" -> <<"ERROR">>
      [] kind = "|IMPORTANT" -> <<"IMPORTANT">>
      [] kind = "WARNING|IMPORTANT" -> <<"WARNING", "IMPORTANT">>
      [] kind = "ERROR|IMPORTANT" -> <<"ERROR", "IMPORTANT">>

TagPrefix(tag) ==
    CASE tag = "WARNING" -> "\\033[93m\\033[3m"
      [] tag = "ERROR" -> "\\033[91m\\033[1m"
      [] tag = "IMPORTANT" -> "\\033[1m"

RECURSIVE PrefixOf(_)
PrefixOf(tags) ==
    IF tags = <<>> THEN "" ELSE TagPrefix(Head(tags)) \o PrefixOf(Tail(tags))

C11_ColourComposition ==
    Len(main.handed) = 1 =>
        LET original == main.logged[1]["description"][2]
            tags == TagsOf(Get(main.handed[1], "kind", ""))
            emitted == main.handed[1]["description"][2]
        IN  IF main.logger.showColors /\ tags # <<>>
            THEN emitted = PrefixOf(tags) \o original \o "\\033[0m"
            ELSE emitted = original

\* a highlighted warning: yellow, italic, bold, text, reset
C11_Witness ==
    /\ main.logger.showColors
    /\ Len(main.handed) = 1
    /\ Get(main.handed[1], "kind", "") = "WARNING|IMPORTANT"
    /\ main.handed[1]["description"] =
           StrVal("\\033[93m\\033[3m\\033[1mWarning: peer 1\\033[0m")

C13_GateFirst ==
    [][(last'.op \in LoggerOps /\ main.logger.verbosity < last'.args[2]) =>
          /\ main'.state = main.state
          /\ main'.handed = <<>>
          /\ ~main'.raised
          /\ main'.appInfo = main.appInfo
          /\ main'.logger = main.logger]_vars

\* an error below the gate, where the highlight step would have raised
C13_Witness ==
    /\ last.op = "error"
    /\ main.logger.verbosity < LastLevel
    /\ main.logger.inline
    /\ "highlight" \in DOMAIN main.state
    /\ "onlyIf" \in DOMAIN main.state
    /\ main.logger.highlight = None
    /\ main.state["errors"] = <<>>
    /\ main.handed = <<>>
    /\ ~main.raised

(***************************************************************************)
(* C14 (as stated): every record handed to the format device carries the   *)
(* input counter as input_line and the output counter + 1 as output_line,  *)
(* the Logger changes neither counter, and, the device counting one per    *)
(* write, the k-th record written in a run is stamped output_line = k.     *)
(***************************************************************************)
\* the number of records written so far: the device counts one per write
Written(w) == w.appInfo.current_output_index

C14_AsStated ==
    /\ main.state["input_line"] = BaseState["input_line"]
    /\ main.state["output_line"] = BaseState["output_line"]
    /\ Len(main.handed) = 1 =>
          /\ main.handed[1]["input_line"] = IntVal(main.state["input_line"])
          /\ main.handed[1]["output_line"] = IntVal(Written(main))


(***************************************************************************)
(* The rule table and the dispatch of a line.                              *)
(***************************************************************************)
\* the positions of the rules bound to a handler
RulesOf(handler) ==
    {k \in 1..Len(get_regex_list) : get_regex_list[k][1] = handler}

\* the suppression rules whose pattern is found in a line
SuppressedBy ==
    [line \in Lines |->
       {k \in RulesOf("on_ignored_message") :
          re_search(get_regex_list[k][2], line) # None}]

\* what the pattern of the last rule finds in a line
LastRuleFinds ==
    [line \in Lines |->
       re_search(get_regex_list[Len(get_regex_list)][2], line)]

\* the line the last step of the loop dispatched, if it dispatched one
Dispatched ==
    IF last.op = "parse_line" /\ ~io.loop.crashed /\ io.loop.result # None
    THEN Some(StripEol(io.loop.result[1]))
    ELSE None

Unsuppressed(line) == SuppressedBy[line] = {}

\* C15: every suppression rule precedes the catch-all, the only rule bound
\* to on_unmatched_message and the last of the table; a dispatched line that
\* a suppression pattern and the catch-all both match goes to
\* on_ignored_message, gives no record, and no such line is ever archived.
C15_OrderSensitivity ==
    /\ RulesOf("on_unmatched_message") = {Len(get_regex_list)}
    /\ RulesOf("on_ignored_message") = 1..(Len(get_regex_list) - 1)
    /\ \A line \in Lines :
         (/\ Dispatched = Some(line)
          /\ SuppressedBy[line] # {}
          /\ LastRuleFinds[line] # None)
         => /\ io.loop.handler = "on_ignored_message"
            /\ main.handed = <<>>
            /\ main.appInfo.current_output_index = 0
    /\ \A i \in DOMAIN io.loop.archived :
         SuppressedBy[io.loop.archived[i]] = {}

C15_Witness ==
    /\ Dispatched = Some("DDS_Registry_lock:Locking the storage service")
    /\ SuppressedBy["DDS_Registry_lock:Locking the storage service"] = {2}
    /\ LastRuleFinds["DDS_Registry_lock:Locking the storage service"] # None
    /\ io.loop.handler = "on_ignored_message"
    /\ io.loop.archived = <<"XYZ unknown format 123">>

\* C16: the last rule matches every line, so every dispatched line has a
\* handler; a line no suppression pattern matches goes to
\* on_unmatched_message with the whole line as its only capture and gives
\* no record; only lines a suppression pattern matches are dropped, so the
\* archive holds exactly the dispatched lines without such a match.
C16_NeverSilentlyDropped ==
    /\ \A line \in Lines : LastRuleFinds[line] = Some(<<line>>)
    /\ \A line \in Lines :
         Dispatched = Some(line)
         => /\ io.loop.handler \in {"on_ignored_message", "on_unmatched_message"}
            /\ Unsuppressed(line)
               => /\ io.loop.handler = "on_unmatched_message"
                  /\ io.loop.captures = <<line>>
                  /\ io.loop.archived # <<>>
                  /\ io.loop.archived[Len(io.loop.archived)] = line
            /\ io.loop.handler = "on_ignored_message" => ~Unsuppressed(line)
            /\ main.handed = <<>>
    /\ io.loop.archived = SelectSeq(io.loop.dispatched, Unsuppressed)

C16_Witness ==
    /\ Dispatched = Some("XYZ unknown format 123")
    /\ io.loop.handler = "on_unmatched_message"
    /\ io.loop.captures = <<"XYZ unknown format 123">>
    /\ io.loop.archived = <<"XYZ unknown format 123">>
    /\ io.loop.dispatched = <<"", "XYZ unknown format 123">>
    /\ main.handed = <<>>


(***************************************************************************)
(* The input and output devices at their boundary.                         *)
(***************************************************************************)
\* C17 (as stated): no exception leaves read_line, with or without the
\* progress display; when the read of the stream fails the result is ""
\* and not None, the error is printed directly and no record is handed.
C17_AsStated ==
    last.op = "parse_line"
    => /\ ~io.loop.crashed
       /\ io.loop.read = "raise"
          => /\ io.loop.result = Some("")
             /\ io.loop.out # <<>>
             /\ io.loop.out[1] = "[InputError] " \o IOErrorText
             /\ main.handed = <<>>

\* C18 (as stated): read_line returns None exactly when readline returned
\* "" without raising; a failed read and a blank line never give None and
\* never take the loop from scanning to terminated.
C18_AsStated ==
    last.op = "parse_line"
    => /\ ~io.loop.crashed => (io.loop.result = None <=> io.loop.read = "eof")
       /\ io.loop.read \in {"raise", "line"}
          => /\ io.loop.result # None
             /\ io.loop.pc = "scanning"

\* C19 (as stated): a write whose print or stream write raises an I/O
\* error returns normally, for the console with and without ANSI support
\* and for the file.
C19_AsStated ==
    (last.op = "write" /\ ~last.args[2]) => ~io.output.raised


(***************************************************************************)
(* The records of one dispatched line.                                     *)
(***************************************************************************)
\* C20: every entry point of the Logger hands at most one record to the
\* format device per call and every handler of events.py calls at most one
\* entry point per invocation, so a call writes zero or one record.
C20_AtMostOneRecord ==
    /\ Len(main.handed) <= 1
    /\ Len(main.entered) <= 1
    /\ main.entered # <<>> => main.entered[1] \in LoggerOps
    /\ main.appInfo.current_output_index <= calls

C20_Witness ==
    /\ last.op = "on_create_topic"
    /\ main.entered = <<"event">>
    /\ Len(main.handed) = 1
    /\ Get(main.handed[1], "description", "")
         = "Created topic, name: 'Topic_1', type: 'Type_1'"
    /\ main.appInfo.current_output_index = 1


(***************************************************************************)
(* The countsets of the RunState.                                          *)
(***************************************************************************)
RECURSIVE SumCounts(_, _)
SumCounts(countset, els) ==
    IF els = {} THEN 0
    ELSE LET el == CHOOSE x \in els : TRUE
         IN  countset[el][2] + SumCounts(countset, els \ {el})

\* the sum of the occurrence counts of a countset
Total(countset) == SumCounts(countset, DOMAIN countset)

\* C21: a call of warning, error or cfg whose level is within the verbosity
\* adds one occurrence of its text to its own countset, whose sum of counts
\* goes up by one, and leaves the two other countsets as they are; every
\* other step (a gated call, event, recv, send, process, a handler, a
\* setter) leaves the three countsets as they are.
C21_Independent ==
    [][\A n \in CountsetNames :
          IF /\ last'.op \in CountOps
             /\ n = CountsetOf(last'.op)
             /\ main.logger.verbosity >= last'.args[2]
          THEN /\ OneMore(main.state[n], main'.state[n], last'.args[1])
               /\ Total(main'.state[n]) = Total(main.state[n]) + 1
          ELSE main'.state[n] = main.state[n]]_vars

\* cfg twice and warning once: sums 2, 1 and 0
C21_Witness ==
    /\ last.op = "cfg"
    /\ Total(main.state["config"]) = 2
    /\ Total(main.state["warnings"]) = 1
    /\ Total(main.state["errors"]) = 0
    /\ calls = 3


(***************************************************************************)
(* The end of the dispatch loop.                                           *)
(***************************************************************************)
\* the loop is terminated because read_line returned None
Exhausted ==
    /\ io.loop.pc = "terminated"
    /\ ~io.loop.crashed
    /\ io.loop.result = None
    /\ io.loop.read = "eof"

\* C22 (as stated): the loop starts in scanning and, whatever reads fail,
\* eventually is terminated with read_line having returned None; once it is
\* terminated no further line is dispatched and no further record written.
C22_AsStated ==
    /\ io.loop.pc = "scanning"
    /\ <>Exhausted
    /\ [][io.loop.pc = "terminated"
          => /\ io'.loop = io.loop
             /\ main'.handed = main.handed
             /\ main'.appInfo = main.appInfo]_vars


(***************************************************************************)
(* The counter of the output device.                                       *)
(***************************************************************************)
\* C23 (as stated): after any sequence of writes the counter of the output
\* equals the number of lines that reached the sink, a failed write
\* included.
C23_AsStated ==
    main.appInfo.current_output_index = Len(io.output.lines)


(***************************************************************************)
(* The levels the handlers give to the Logger.                             *)
(***************************************************************************)
\* C24 (as stated): the verbosity gate compares two integers in every call
\* a handler makes, so no handler ends with an exception; at the highest
\* verbosity a discovered participant and a discovered publication give
\* their record when packets are not ignored, and lost discovery samples
\* are counted as a warning.
C24_AsStated ==
    /\ ~main.raised
    /\ (/\ last.op \in {"on_discover_participant", "on_discover_publication"}
        /\ main.logger.verbosity = MaxLevel
        /\ ~main.logger.ignorePackets)
       => Len(main.handed) = 1
    /\ (/\ last.op = "on_lose_discovery_samples"
        /\ main.logger.verbosity = MaxLevel)
       => Total(main.state["warnings"]) = 1


(***************************************************************************)
(* The filters of _log and the setters of the Logger.                      *)
(***************************************************************************)
\* the pattern given to a setter is found in a field of the record of _log
SetterMatches(pattern) ==
    pattern # None /\ MatchesSomeField(pattern[1], Stamped(main))

\* C25 (as stated): for a record that passed the verbosity gate, the
\* only-if step drops it exactly when setOnlyIf was given a pattern that
\* the record does not match, the highlight step tags it exactly when
\* setHighlight was given a pattern that it matches, whatever the RunState
\* holds, and _log never applies a pattern that is None.
C25_AsStated ==
    PassedGate(main) =>
        /\ ~main.raised
        /\ Len(main.handed) = 1
           <=> (main.logger.onlyIf = None \/ SetterMatches(main.logger.onlyIf))
        /\ Len(main.handed) = 1
           => Get(main.handed[1], "kind", "")
                = Get(main.logged[1], "kind", "")
                    \o (IF SetterMatches(main.logger.highlight)
                        THEN "|IMPORTANT" ELSE "")


(***************************************************************************)
(* The lookups of the colour step.                                         *)
(***************************************************************************)
\* C26: every record that passed the filters has a kind whose tags are
\* among WARNING, ERROR and IMPORTANT, keys of the kind-to-colour table
\* whose colour names are keys of the colour table; so a call of the Logger
\* ends with an exception only where the highlight step applied a pattern
\* that is None, never in a lookup of the colour step.
C26_ColoursKnown ==
    /\ \A i \in DOMAIN main.handed :
          /\ Elements(FilterNone(split(Get(main.handed[i], "kind", ""), "|")))
                 \subseteq {"WARNING", "ERROR", "IMPORTANT"}
          /\ ColorsKnown(main.handed[i])
    /\ main.raised
       => ("highlight" \in DOMAIN main.state /\ main.logger.highlight = None)

\* a warning that the highlight pattern matches, with colours
C26_Witness ==
    /\ last.op = "warning"
    /\ main.logger.showColors
    /\ Len(main.handed) = 1
    /\ Get(main.handed[1], "kind", "") = "WARNING|IMPORTANT"
    /\ ~main.raised

=============================================================================
